---- MODULE Spec2Model ----
(***************************************************************************)
(* x402 gateway (src/app/api/gateway/[...path]/route.ts): the payment-     *)
(* gated reverse proxy, its payment verifier and the payment_nonces table. *)
(* A request is one run of handleGatewayRequest; every await of the        *)
(* handler is a step boundary, so concurrent requests interleave exactly   *)
(* where the event loop lets them.                                         *)
(***************************************************************************)
EXTENDS Integers, Sequences, FiniteSets, TLC

(***************************************************************************)
(* Bounds of the model.                                                    *)
(***************************************************************************)
MaxRequests == 2      \* requests received in one behaviour of Spec
MaxReplays == 3       \* requests received in one behaviour of SpecReplay
MaxRace == 2          \* requests received in one behaviour of SpecRace
MaxResubmit == 3      \* requests received in one behaviour of SpecResubmit
MaxCallers == 5       \* waitForToken calls in one behaviour of SpecLimiter
MaxArrival == 2       \* the last clock step at which a caller may arrive
MaxLate == 1          \* clock steps by which a timer may fire late
MaxTick == 1          \* seconds the clock advances past Epoch
MaxChecks == 1        \* checkAbuseLimit calls in one behaviour of SpecAbuse
MaxWallTick == 1      \* milliseconds the validator's clock advances
MaxRuns == 1          \* validateService calls in one behaviour of SpecEngine
MaxResults == 3       \* test results of a run in SpecScore
MaxCases == 2         \* test cases generateTestCases makes of a service
MaxPerMinute == 3     \* requestsPerMinute of the limiter of SpecWindow
MaxPosts == 3         \* POST /api/validate requests in one behaviour of SpecValidate
MaxCleanupRequests == 2  \* requests received in one behaviour of SpecCleanup
MaxElapsed == 4200    \* seconds the clock of SpecCleanup advances past Epoch

(***************************************************************************)
(* Program constants.                                                      *)
(***************************************************************************)
MAX_AGE == 300        \* verifyPayment: const MAX_AGE = 300
Epoch == 1000         \* Math.floor(Date.now() / 1000) when the model starts

Slots == {1, 2}       \* request handlers that may be in flight together

(***************************************************************************)
(* Addresses are hex strings whose letters may be upper or lower case:     *)
(* an address is its digits (id) and whether it is written in mixed case.  *)
(***************************************************************************)
Addr(i, m) == [id |-> i, mixed |-> m]

\* String.prototype.toLowerCase on an address
ToLowerCase(a) == [a EXCEPT !.mixed = FALSE]

(***************************************************************************)
(* The user_services table: read-only to the gateway.                      *)
(***************************************************************************)
userServices ==
  { [id |-> "s1", ownerAddress |-> "o1", paymentRecipient |-> Addr("P", TRUE),
     status |-> "active", network |-> "base", pricePerRequest |-> "1000"],
    [id |-> "s2", ownerAddress |-> "o2", paymentRecipient |-> Addr("P", TRUE),
     status |-> "maintenance", network |-> "base", pricePerRequest |-> "1000"],
    [id |-> "s3", ownerAddress |-> "o1", paymentRecipient |-> Addr("P", TRUE),
     status |-> "inactive", network |-> "polygon", pricePerRequest |-> "999"] }

(***************************************************************************)
(* Requests.  A PaymentProof's signature is modelled by what               *)
(* recoverMessageAddress makes of it: "byFrom" is a signature by the key   *)
(* of proof.from over the canonical JSON of the proof's own fields,        *)
(* "byOther" one that recovers to another address (another key, or         *)
(* another message), "malformed" one that makes recovery throw.            *)
(***************************************************************************)
Amounts == {"1000", "999"}
Recipients == {Addr("P", TRUE), Addr("P", FALSE), Addr("Q", FALSE)}
Networks == {"base", "polygon"}
Timestamps == {Epoch - MAX_AGE, Epoch, Epoch + MAX_AGE + 1}
Nonces == {"n1", "n2"}
Payers == {Addr("A", FALSE), Addr("A", TRUE), Addr("B", FALSE)}
Signatures == {"byFrom", "byOther", "malformed"}

PaymentProof ==
  [signature : Signatures, amount : Amounts, recipient : Recipients,
   network : Networks, timestamp : Timestamps, nonce : Nonces, from : Payers]

\* the proof a client builds from the service's own terms
GoodProof(n, a) ==
  [signature |-> "byFrom", amount |-> "1000", recipient |-> Addr("P", TRUE),
   network |-> "base", timestamp |-> Epoch, nonce |-> n, from |-> a]

NoProof == GoodProof("n1", Addr("A", FALSE))

\* the X-Payment header: absent, not base64 of JSON, base64 of JSON that is
\* no PaymentProof (null, {}), or base64 of the JSON of a PaymentProof
HeaderKinds == {"none", "garbage", "jsonNull", "jsonEmpty", "proof"}
Header(k, p) == [kind |-> k, proof |-> p]

Targets == {<<"o1", "s1">>, <<"o2", "s1">>, <<"o2", "s2">>, <<"o1", "s3">>}
Methods == {"GET", "POST"}

Request(segs, t, m, h) ==
  [segments |-> segs, userId |-> t[1], serviceId |-> t[2], method |-> m, header |-> h]

NoRequest == Request(2, <<"o1", "s1">>, "GET", Header("none", NoProof))

\* the proofs the model draws from: every combination of the fields that
\* checks 1-4 and 6 read, from one payer with one nonce, and every nonce,
\* payer and signature with the fields of checks 1-4 as the service expects
Proofs ==
  { p \in PaymentProof : p.nonce = "n1" /\ p.from = Addr("A", FALSE) }
  \cup { p \in PaymentProof :
           /\ p.amount = "1000" /\ p.recipient = Addr("P", TRUE)
           /\ p.network = "base" /\ p.timestamp = Epoch }

\* the requests the model draws from: every path shape, target, method and
\* header kind with a representative proof, and every proof of Proofs for
\* the active service
Requests ==
  { Request(1, <<"o1", "s1">>, "POST", Header("none", NoProof)) }
  \cup { Request(2, t, m, Header(k, NoProof)) :
           t \in Targets, m \in Methods, k \in HeaderKinds }
  \cup { Request(3, t, "POST", Header("proof", [NoProof EXCEPT !.signature = "byOther"])) :
           t \in Targets }
  \cup { Request(3, <<"o1", "s1">>, "POST", Header("proof", p)) : p \in Proofs }

\* clients presenting proofs built from the active service's terms: every
\* nonce and payer, signed by the payer or by someone else
ReplayRequests ==
  { Request(3, <<"o1", "s1">>, "POST", Header("proof", p)) :
      p \in { g \in Proofs : g.timestamp = Epoch /\ g.amount = "1000"
                             /\ g.recipient = Addr("P", TRUE) /\ g.network = "base"
                             /\ g.signature # "malformed" } }

\* one payer's proofs, for two requests in flight together
RaceRequests ==
  { Request(3, <<"o1", "s1">>, "POST", Header("proof", GoodProof(n, Addr("A", FALSE)))) :
      n \in Nonces }

\* one payer's proofs, each nonce in one proof: one dated now and one dated
\* as far ahead as a fresh proof may be
CleanupRequests ==
  { Request(3, <<"o1", "s1">>, "POST", Header("proof", GoodProof("n1", Addr("A", FALSE)))),
    Request(3, <<"o1", "s1">>, "POST",
            Header("proof", [GoodProof("n2", Addr("A", FALSE))
                               EXCEPT !.timestamp = Epoch + MAX_AGE])) }

\* two payers' proofs built from the service's terms, each payer writing
\* its address in one way, so that a proof is known by its (nonce, payer)
ResubmitRequests ==
  { Request(3, <<"o1", "s1">>, "POST", Header("proof", GoodProof(n, Addr(a, FALSE)))) :
      n \in Nonces, a \in {"A", "B"} }

VARIABLES
  db,             \* the module-level db handle: TRUE when not null
  now,            \* Math.floor(Date.now() / 1000)
  paymentNonces,  \* rows of payment_nonces
  apiCalls,       \* rows of api_calls, in insertion order
  pc,             \* where each handler stands
  req,            \* the request each handler serves
  resp,           \* the response each handler returned
  verdict,        \* what verifyPayment returned to each handler
  wrote,          \* the handler's insert into payment_nonces took effect
  dbFault,        \* the handler's nonce lookup or insert met a null db or raised
  upstream,       \* the handler called fetch on the upstream
  track,          \* the handler's trackApiCall: none, pending, stored, failed
  accepted,       \* the (nonce, payer) pairs verifyPayment returned true for
  nReq            \* requests received so far

\* GET /api/nonces/cleanup (src/app/api/nonces/cleanup/route.ts)
VARIABLE
  deletedNonces   \* the rows the cleanup's deletes have removed so far

cleanupVars == <<deletedNonces>>

\* the gateway's variables
gatewayVars == <<db, now, paymentNonces, apiCalls, pc, req, resp, verdict, wrote, dbFault,
                 upstream, track, accepted, nReq>>

\* one RateLimiter (src/lib/services/rate-limiter.ts) and its callers
VARIABLES
  config,         \* the RateLimiterConfig the limiter was constructed with
  tokens,         \* this.tokens, in thousandths of a token
  lastRefill,     \* this.lastRefill, ms
  minuteWindow,   \* this.minuteWindow: the timestamps of its entries, oldest first
  queue,          \* this.queue: the callers whose resolve is waiting, oldest first
  processing,     \* this.processing
  wakeAt,         \* when the drain loop's setTimeout is due, ms; -1 when none is set
  loops,          \* the processQueue calls that are in their while loop
  clockMs,        \* Date.now(), ms since the limiter was constructed
  calledAt,       \* when each waitForToken call was made, in order of the calls
  admitted        \* the callers whose promise was resolved, and when, in order

limiterVars == <<config, tokens, lastRefill, minuteWindow, queue, processing, wakeAt,
                 loops, clockMs, calledAt, admitted>>

\* the validator: abuse prevention (src/lib/validator/abuse-prevention.ts and
\* its Supabase variant src/unnamed/part_004) and the validation engine
\* (src/lib/validator/engine.ts), over the validation_requests table
VARIABLES
  variant,            \* which abuse-prevention module is loaded: "drizzle" or "supabase"
  validationRequests, \* rows of validation_requests, in insertion order
  wallMs,             \* Date.now() as the validator reads it, ms
  abusePc,            \* where the checkAbuseLimit call stands
  abuseReq,           \* the AbuseCheckRequest it was called with
  abuseAskedAt,       \* Date.now() when the check in progress was started; once
                      \* checkAbuseLimit has returned, when it returned
  abuseResult,        \* the AbuseCheckResult it returned
  abuseFailed,        \* the checks whose query failed, "db" for a null handle
  nChecks,            \* checkAbuseLimit calls so far
  runPc,              \* where the validateService call stands
  runReq,             \* the ValidationRequest it was called with
  runRow,             \* validationRecord.id: the id of the row it inserted, 0 before
  runTests,           \* the test cases it has still to execute
  runSpent,           \* totalTokensSpent
  runFetched,         \* it has made an HTTP request to the service under test
  runSigned,          \* it has signed a payment
  runResult,          \* what executeTest met, did and returned, until it is stored
  runPaid,            \* the test cases whose signed, paid request returned 200
  runOutcome,         \* how it ended: "", "returned" or "threw"
  runError,           \* the message of the error its catch block caught, "" when none
  runThrown,          \* the message of the error it threw to its caller, "" when none
  nRuns               \* validateService calls so far

abuseVars == <<variant, abusePc, abuseReq, abuseAskedAt, abuseResult, abuseFailed, nChecks>>
engineVars == <<runPc, runReq, runRow, runTests, runSpent, runFetched, runSigned, runResult,
               runPaid, runOutcome, runError, runThrown, nRuns>>
validatorVars == <<validationRequests, wallMs, abuseVars, engineVars>>

\* the scoring of a run's test results (src/lib/validator/engine.ts 121-125)
VARIABLES
  testResults,        \* the TestResults of the run, in the order of its test cases
  score,              \* calculateValidationScore(testResults), -1 before it is called
  validationStatus    \* 'verified' or 'failed', "" before

scoreVars == <<testResults, score, validationStatus>>

\* the payment signers (signX402Payment, signTestnetPayment)
VARIABLES
  env,                \* the networks whose VALIDATOR_WALLET_PRIVATE_KEY_* variable is set
  signCall,           \* the last call: which signer, for which network
  signResult          \* what it came to: signed or not, with whose key, the error thrown

signerVars == <<env, signCall, signResult>>

\* POST /api/validate (src/app/api/validate/route.ts), two requests at a time
VARIABLES
  postPc,             \* where each request is: idle, admitted, denied, inserted, threw
  postReq,            \* the AbuseCheckRequest the route made of each request
  nPosts              \* POST requests received so far

postVars == <<postPc, postReq, nPosts>>

vars == <<gatewayVars, limiterVars, validatorVars, scoreVars, signerVars, postVars,
          cleanupVars>>

\* what a step of one component leaves alone: the other components
notGateway == <<limiterVars, validatorVars, scoreVars, signerVars, postVars,
                cleanupVars>>
notLimiter == <<gatewayVars, validatorVars, scoreVars, signerVars, postVars,
                cleanupVars>>
notValidator == <<gatewayVars, limiterVars, scoreVars, signerVars, postVars,
                  cleanupVars>>
notScore == <<gatewayVars, limiterVars, validatorVars, signerVars, postVars,
              cleanupVars>>
notSigner == <<gatewayVars, limiterVars, validatorVars, scoreVars, postVars,
               cleanupVars>>
notPost == <<gatewayVars, limiterVars, scoreVars, signerVars, cleanupVars>>
notCleanup == <<limiterVars, validatorVars, scoreVars, signerVars, postVars>>

\* a response: its status, its error message, what else its body holds (the
\* status a 503 names, "html", "json", "upstream") and its accepts[0] entry
NoAccepts == [scheme |-> "", network |-> "", maxAmountRequired |-> "", payTo |-> Addr("", FALSE)]
Response(s, e, d) == [status |-> s, error |-> e, detail |-> d, accepts |-> NoAccepts]
NoResponse == Response(0, "", "")

\* the gateway when the module is loaded
GatewayInit ==
  /\ db = FALSE
  /\ now = Epoch
  /\ paymentNonces = {}
  /\ apiCalls = <<>>
  /\ pc = [r \in Slots |-> "idle"]
  /\ req = [r \in Slots |-> NoRequest]
  /\ resp = [r \in Slots |-> NoResponse]
  /\ verdict = [r \in Slots |-> "none"]
  /\ wrote = [r \in Slots |-> FALSE]
  /\ dbFault = [r \in Slots |-> FALSE]
  /\ upstream = [r \in Slots |-> FALSE]
  /\ track = [r \in Slots |-> "none"]
  /\ accepted = {}
  /\ nReq = 0
  /\ deletedNonces = {}

(***************************************************************************)
(* verifyPayment's checks.                                                 *)
(***************************************************************************)
Abs(x) == IF x < 0 THEN -x ELSE x

\* 1. payment.amount !== expectedAmount rejects
AmountOk(payment, expectedAmount) == payment.amount = expectedAmount

\* 2. payment.recipient.toLowerCase() !== expectedRecipient.toLowerCase() rejects
RecipientOk(payment, expectedRecipient) ==
  ToLowerCase(payment.recipient) = ToLowerCase(expectedRecipient)

\* the slip of comparing the proof's network with itself
NetworkOkSelf(payment, expectedNetwork) == payment.network = payment.network

\* 3. payment.network !== expectedNetwork rejects
NetworkOk(payment, expectedNetwork) == payment.network = expectedNetwork

\* the slip of rejecting at MAX_AGE already (>= for >)
TimestampOkStrict(payment, t) == ~(Abs(t - payment.timestamp) >= MAX_AGE)

\* 4. Math.abs(now - payment.timestamp) > MAX_AGE rejects
TimestampOk(payment, t) == ~(Abs(t - payment.timestamp) > MAX_AGE)

\* JSON.parse(Buffer.from(header, 'base64').toString('utf-8')): Buffer.from
\* never throws, JSON.parse throws on text that is not JSON and returns
\* whatever value the JSON denotes otherwise
DecodeHeader(h) ==
  [threw |-> h.kind = "garbage", isProof |-> h.kind = "proof", value |-> h.proof]

\* checks 1-4 of verifyPayment on the decoded value.  null makes
\* payment.amount throw a TypeError, which verifyPayment's catch turns into
\* false; {} has amount undefined, which is not the expected amount
SyncChecks(decoded, service, t) ==
  /\ decoded.isProof
  /\ AmountOk(decoded.value, service.pricePerRequest)
  /\ RecipientOk(decoded.value, service.paymentRecipient)
  /\ NetworkOk(decoded.value, service.network)
  /\ TimestampOk(decoded.value, t)

\* isNonceUsed's query: rows with this nonce and the lower-cased address
IsNonceUsed(nonce, userAddress) ==
  \E row \in paymentNonces :
     row.nonce = nonce /\ row.userAddress = ToLowerCase(userAddress)

\* viem's recoverMessageAddress: the checksummed address of the signing key,
\* or an exception for a signature that is no signature
RecoverMessageAddress(payment) ==
  [threw |-> payment.signature = "malformed",
   address |-> IF payment.signature = "byFrom"
               THEN Addr(payment.from.id, TRUE) ELSE Addr("X", TRUE)]

\* 6. the recovered address, lower-cased, must be payment.from, lower-cased
SignatureOk(payment) ==
  LET rec == RecoverMessageAddress(payment)
  IN  ~rec.threw /\ ToLowerCase(rec.address) = ToLowerCase(payment.from)

\* Date.now() and new Date(), in ms, of a clock read in whole seconds
DateNow(t) == t * 1000

\* the row markNonceUsed inserts at time t: expiresAt is
\* new Date(Date.now() + 60 * 60 * 1000)
NonceRow(payment, serviceId, t) ==
  [nonce |-> payment.nonce, userAddress |-> ToLowerCase(payment.from),
   serviceId |-> serviceId, expiresAt |-> DateNow(t) + 60 * 60 * 1000]

\* payment_nonces after the insert: nonce is UNIQUE, so a row whose nonce is
\* already in the table is refused (the insert raises)
InsertNonce(rows, row) ==
  IF \E old \in rows : old.nonce = row.nonce THEN rows ELSE rows \cup {row}

\* generate402Response: the accepts[0] entry of the JSON challenge
Generate402Accepts(service) ==
  [scheme |-> "exact", network |-> service.network,
   maxAmountRequired |-> service.pricePerRequest, payTo |-> service.paymentRecipient]

\* the slip of turning away only the services marked inactive
IsNotInactive(service) == service.status # "inactive"

\* service.status !== 'active' answers 503
IsActive(service) == service.status = "active"

\* the slip of looking the service up by its id alone
ServiceRecordsById(userId, serviceId) ==
  { s \in userServices : s.id = serviceId }

\* the rows the service lookup returns
ServiceRecords(userId, serviceId) ==
  { s \in userServices : s.ownerAddress = userId /\ s.id = serviceId }

\* serviceRecords[0]
ServiceOf(q) == CHOOSE s \in ServiceRecords(q.userId, q.serviceId) : TRUE

(***************************************************************************)
(* Responses of handleGatewayRequest.                                      *)
(***************************************************************************)
R400 == Response(400, "Invalid gateway URL format", "")
R503Db == Response(503, "Database not available. Please try again later.", "")
R404 == Response(404, "Service not found or is not active", "")
R503Status(status) == Response(503, "Service is currently", status)
R402Page == Response(402, "payment page", "html")
R402Challenge(service) ==
  [Response(402, "Payment required. Please provide X-Payment header with valid payment proof.", "json")
   EXCEPT !.accepts = Generate402Accepts(service)]
R402Format == Response(402, "Invalid payment header format. Must be base64-encoded JSON.", "")
R402Failed == Response(402, "Payment verification failed. Please check your payment details.", "")
R500 == Response(500, "Gateway temporarily unavailable. Please try again in a moment.", "")
RUpstream(status) == Response(status, "", "upstream")

\* the handler returns `response`; verifyPayment had returned `v` ("none"
\* when it was not called)
Return(r, response, v) ==
  /\ pc' = [pc EXCEPT ![r] = "done"]
  /\ resp' = [resp EXCEPT ![r] = response]
  /\ verdict' = [verdict EXCEPT ![r] = v]

\* verifyPayment returns true: the handler goes on to fetch the upstream
Forward(r) ==
  /\ pc' = [pc EXCEPT ![r] = "fetch"]
  /\ verdict' = [verdict EXCEPT ![r] = "true"]
  /\ upstream' = [upstream EXCEPT ![r] = TRUE]
  /\ accepted' = accepted \cup
        {<<req[r].header.proof.nonce, ToLowerCase(req[r].header.proof.from)>>}
  /\ UNCHANGED resp

(***************************************************************************)
(* handleGatewayRequest, one action per stretch between two awaits.        *)
(***************************************************************************)

\* A request arrives: the path is split, db is tested and the service
\* lookup is issued (lines 513-546).
Receive(r, q) ==
  /\ pc[r] = "idle"
  /\ nReq' = nReq + 1
  /\ req' = [req EXCEPT ![r] = q]
  /\ IF q.segments < 2 THEN Return(r, R400, "none")
     ELSE IF ~db THEN Return(r, R503Db, "none")
     ELSE /\ pc' = [pc EXCEPT ![r] = "lookup"]
          /\ UNCHANGED <<resp, verdict>>
  /\ UNCHANGED <<db, now, paymentNonces, apiCalls, wrote, dbFault, upstream, track,
                 accepted>>
  /\ UNCHANGED notGateway

\* The service lookup resolves (or raises); the handler answers 404, 503 or
\* a challenge, decodes the header, and runs verifyPayment up to its first
\* await: checks 1-4, then isNonceUsed's db test and query (lines 548-600,
\* 195-223, 84-100).
LookupService(r, raises) ==
  /\ pc[r] = "lookup"
  /\ \E raised \in raises :
       LET q == req[r]
           records == ServiceRecords(q.userId, q.serviceId)
           service == ServiceOf(q)
           decoded == DecodeHeader(q.header)
       IN  IF raised THEN Return(r, R500, "none") /\ UNCHANGED dbFault
           ELSE IF records = {} THEN Return(r, R404, "none") /\ UNCHANGED dbFault
           ELSE IF ~IsActive(service)
             THEN Return(r, R503Status(service.status), "none") /\ UNCHANGED dbFault
           ELSE IF q.header.kind = "none"
             THEN /\ Return(r, IF q.method = "GET" THEN R402Page ELSE R402Challenge(service), "none")
                  /\ UNCHANGED dbFault
           ELSE IF decoded.threw THEN Return(r, R402Format, "none") /\ UNCHANGED dbFault
           ELSE IF ~SyncChecks(decoded, service, now)
             THEN Return(r, R402Failed, "false") /\ UNCHANGED dbFault
           ELSE /\ pc' = [pc EXCEPT ![r] = IF db THEN "nonce" ELSE "recover"]
                /\ dbFault' = [dbFault EXCEPT ![r] = ~db]
                /\ UNCHANGED <<resp, verdict>>
  /\ UNCHANGED <<db, now, paymentNonces, apiCalls, req, wrote, upstream, track,
                 accepted, nReq>>
  /\ UNCHANGED notGateway

\* the slip of storing the nonce as soon as it is found unused, before the
\* signature is verified
CheckNonceThenMark(r, raises) ==
  /\ pc[r] = "nonce"
  /\ \E raised \in raises :
       LET payment == req[r].header.proof
           nonceAlreadyUsed == IF raised THEN FALSE
                               ELSE IsNonceUsed(payment.nonce, payment.from)
           rows == InsertNonce(paymentNonces, NonceRow(payment, req[r].serviceId, now))
       IN  /\ dbFault' = [dbFault EXCEPT ![r] = raised]
           /\ IF nonceAlreadyUsed
                THEN Return(r, R402Failed, "false") /\ UNCHANGED <<paymentNonces, wrote>>
              ELSE /\ pc' = [pc EXCEPT ![r] = "recover"]
                   /\ paymentNonces' = rows
                   /\ wrote' = [wrote EXCEPT ![r] = rows # paymentNonces]
                   /\ UNCHANGED <<resp, verdict>>
  /\ UNCHANGED <<db, now, apiCalls, req, upstream, track, accepted, nReq>>
  /\ UNCHANGED notGateway

\* the slip of telling the client that it was the nonce that was refused
CheckNonceTelling(r, raises) ==
  /\ pc[r] = "nonce"
  /\ \E raised \in raises :
       LET payment == req[r].header.proof
           nonceAlreadyUsed == IF raised THEN FALSE
                               ELSE IsNonceUsed(payment.nonce, payment.from)
       IN  /\ dbFault' = [dbFault EXCEPT ![r] = raised]
           /\ IF nonceAlreadyUsed
                THEN Return(r, Response(402, "Nonce already used", ""), "false")
              ELSE /\ pc' = [pc EXCEPT ![r] = "recover"]
                   /\ UNCHANGED <<resp, verdict>>
  /\ UNCHANGED <<db, now, paymentNonces, apiCalls, req, wrote, upstream, track,
                 accepted, nReq>>
  /\ UNCHANGED notGateway

\* isNonceUsed's query resolves, or raises and is taken for "not used"; a
\* used nonce ends verifyPayment, otherwise recoverMessageAddress is
\* awaited (lines 90-106, 223-243).
CheckNonce(r, raises) ==
  /\ pc[r] = "nonce"
  /\ \E raised \in raises :
       LET payment == req[r].header.proof
           nonceAlreadyUsed == IF raised THEN FALSE
                               ELSE IsNonceUsed(payment.nonce, payment.from)
       IN  /\ dbFault' = [dbFault EXCEPT ![r] = raised]
           /\ IF nonceAlreadyUsed THEN Return(r, R402Failed, "false")
              ELSE /\ pc' = [pc EXCEPT ![r] = "recover"]
                   /\ UNCHANGED <<resp, verdict>>
  /\ UNCHANGED <<db, now, paymentNonces, apiCalls, req, wrote, upstream, track,
                 accepted, nReq>>
  /\ UNCHANGED notGateway

\* recoverMessageAddress resolves or raises; on success markNonceUsed tests
\* db and issues its insert, or returns at once when db is null, and then
\* verifyPayment returns true (lines 239-255, 119-122, 259, 604-619).
RecoverSignature(r) ==
  /\ pc[r] = "recover"
  /\ LET payment == req[r].header.proof
     IN  IF ~SignatureOk(payment)
           THEN Return(r, R402Failed, "false") /\ UNCHANGED <<upstream, accepted, dbFault>>
         ELSE IF db
           THEN /\ pc' = [pc EXCEPT ![r] = "mark"]
                /\ UNCHANGED <<resp, verdict, upstream, accepted, dbFault>>
         ELSE Forward(r) /\ dbFault' = [dbFault EXCEPT ![r] = TRUE]
  /\ UNCHANGED <<db, now, paymentNonces, apiCalls, req, wrote, track, nReq>>
  /\ UNCHANGED notGateway

\* markNonceUsed's insert resolves: the row is stored, or the insert raises
\* (the unique constraint, a datastore fault) and the error is swallowed;
\* verifyPayment returns true either way and the upstream is fetched
\* (lines 124-139, 255-259, 604-619).
MarkNonceUsed(r, raises) ==
  /\ pc[r] = "mark"
  /\ \E raised \in raises :
       LET row == NonceRow(req[r].header.proof, req[r].serviceId, now)
           rows == IF raised THEN paymentNonces ELSE InsertNonce(paymentNonces, row)
       IN  /\ paymentNonces' = rows
           /\ wrote' = [wrote EXCEPT ![r] = rows # paymentNonces]
           /\ dbFault' = [dbFault EXCEPT ![r] = dbFault[r] \/ raised]
  /\ Forward(r)
  /\ UNCHANGED <<db, now, apiCalls, req, track, nReq>>
  /\ UNCHANGED notGateway

\* what fetch does: a response with some status of the upstream's own
\* choosing (a 404 of its own among them), or a rejection
UpstreamOutcomes ==
  {[threw |-> TRUE, status |-> 0]} \cup {[threw |-> FALSE, status |-> s] : s \in {200, 404}}

\* The upstream answers, or fetch rejects and the handler's catch answers
\* 500; after an answer trackApiCall is started and not awaited, and the
\* upstream's response is returned (lines 613-657, 157-166).
FetchUpstream(r) ==
  /\ pc[r] = "fetch"
  /\ \E o \in UpstreamOutcomes :
       IF o.threw
         THEN /\ Return(r, R500, verdict[r])
              /\ UNCHANGED track
         ELSE /\ Return(r, RUpstream(o.status), verdict[r])
              /\ track' = [track EXCEPT ![r] = IF db THEN "pending" ELSE "none"]
  /\ UNCHANGED <<db, now, paymentNonces, apiCalls, req, wrote, dbFault, upstream,
                 accepted, nReq>>
  /\ UNCHANGED notGateway

\* the slip of letting a failed insert reach the caller as the gateway's 500
TrackApiCallSurfacing(r, raises) ==
  /\ track[r] = "pending"
  /\ \E raised \in raises :
       IF raised
         THEN /\ track' = [track EXCEPT ![r] = "failed"]
              /\ resp' = [resp EXCEPT ![r] = R500]
              /\ UNCHANGED apiCalls
         ELSE /\ track' = [track EXCEPT ![r] = "stored"]
              /\ apiCalls' = Append(apiCalls,
                   [serviceId |-> req[r].serviceId,
                    statusCode |-> resp[r].status])
              /\ UNCHANGED resp
  /\ UNCHANGED <<db, now, paymentNonces, pc, req, verdict, wrote, dbFault,
                 upstream, accepted, nReq>>
  /\ UNCHANGED notGateway

\* trackApiCall's insert resolves: the row is appended, or the insert raises
\* and the error is swallowed (lines 166-182).
TrackApiCall(r, raises) ==
  /\ track[r] = "pending"
  /\ \E raised \in raises :
       IF raised
         THEN /\ track' = [track EXCEPT ![r] = "failed"]
              /\ UNCHANGED apiCalls
         ELSE /\ track' = [track EXCEPT ![r] = "stored"]
              /\ apiCalls' = Append(apiCalls,
                   [serviceId |-> req[r].serviceId,
                    statusCode |-> resp[r].status])
  /\ UNCHANGED <<db, now, paymentNonces, pc, req, resp, verdict, wrote, dbFault,
                 upstream, accepted, nReq>>
  /\ UNCHANGED notGateway

\* The handler's invocation is over; the next request gets a fresh one.
Finish(r) ==
  /\ pc[r] = "done"
  /\ track[r] # "pending"
  /\ pc' = [pc EXCEPT ![r] = "idle"]
  /\ req' = [req EXCEPT ![r] = NoRequest]
  /\ resp' = [resp EXCEPT ![r] = NoResponse]
  /\ verdict' = [verdict EXCEPT ![r] = "none"]
  /\ wrote' = [wrote EXCEPT ![r] = FALSE]
  /\ dbFault' = [dbFault EXCEPT ![r] = FALSE]
  /\ upstream' = [upstream EXCEPT ![r] = FALSE]
  /\ track' = [track EXCEPT ![r] = "none"]
  /\ UNCHANGED <<db, now, paymentNonces, apiCalls, accepted, nReq>>
  /\ UNCHANGED notGateway

\* A second passes.
Tick ==
  /\ now < Epoch + MaxTick
  /\ now' = now + 1
  /\ UNCHANGED <<db, paymentNonces, apiCalls, pc, req, resp, verdict, wrote, dbFault,
                 upstream, track, accepted, nReq>>
  /\ UNCHANGED notGateway

\* initializeDatabaseConnection sets db.
DbUp ==
  /\ ~db
  /\ db' = TRUE
  /\ UNCHANGED <<now, paymentNonces, apiCalls, pc, req, resp, verdict, wrote, dbFault,
                 upstream, track, accepted, nReq>>
  /\ UNCHANGED notGateway

\* initializeDatabaseConnection resets db to null when its connection test
\* fails, and so does closeDatabase.
DbDown ==
  /\ db
  /\ db' = FALSE
  /\ UNCHANGED <<now, paymentNonces, apiCalls, pc, req, resp, verdict, wrote, dbFault,
                 upstream, track, accepted, nReq>>
  /\ UNCHANGED notGateway

\* delete(paymentNonces).where(lt(paymentNonces.expiresAt, new Date())): the
\* rows the delete removes
Expired(rows, t) == { row \in rows : row.expiresAt < DateNow(t) }

\* GET and POST /api/nonces/cleanup with the cron's Authorization (or no
\* CRON_SECRET set): the expired rows are deleted and returned.  A wrong
\* Authorization answers 401 and a null db 503, the table left alone.
Cleanup ==
  /\ db
  /\ paymentNonces' = paymentNonces \ Expired(paymentNonces, now)
  /\ deletedNonces' = deletedNonces \cup Expired(paymentNonces, now)
  /\ UNCHANGED <<db, now, apiCalls, pc, req, resp, verdict, wrote, dbFault,
                 upstream, track, accepted, nReq>>
  /\ UNCHANGED notCleanup

\* the lapses of time between two steps: the age a proof may have and the
\* life of a payment_nonces row, in seconds
Lapses == {MAX_AGE, (60 * 60 * 1000) \div 1000}

\* Time passes.
Elapse(d) ==
  /\ now + d <= Epoch + MaxElapsed
  /\ now' = now + d
  /\ UNCHANGED <<db, paymentNonces, apiCalls, pc, req, resp, verdict, wrote, dbFault,
                 upstream, track, accepted, nReq>>
  /\ UNCHANGED notGateway

\* a datastore whose queries may raise, and one whose queries never do
Faulty == BOOLEAN
Healthy == {FALSE}

Handler(r, raises) ==
  \/ LookupService(r, raises)
  \/ CheckNonce(r, raises)
  \/ RecoverSignature(r)
  \/ MarkNonceUsed(r, raises)
  \/ FetchUpstream(r)
  \/ TrackApiCall(r, raises)
  \/ Finish(r)

(***************************************************************************)
(* RateLimiter: a token bucket with a queue of waiting callers.  Times are *)
(* in ms and tokens in thousandths, so that refillRate =                   *)
(* requestsPerSecond / 1000 tokens per ms adds elapsed * requestsPerSecond *)
(* thousandths.                                                            *)
(***************************************************************************)
Step == 500           \* ms between two readings of the clock in the model
SLEEP_FLOOR == 1000   \* processQueue: Math.max(timeToWait, 1000)
MINUTE == 60000       \* cleanupMinuteWindow: now - 60000

\* rateLimiters.cdp and rateLimiters.etherscan; 0 stands for a field left out
Configs ==
  { [requestsPerSecond |-> 1, requestsPerMinute |-> 60, burstSize |-> 2],
    [requestsPerSecond |-> 2, requestsPerMinute |-> 0, burstSize |-> 3] }

\* rateLimiters.cdp with its cap per minute low enough for MaxCallers callers
\* to reach it
WindowConfigs ==
  { [requestsPerSecond |-> 1, requestsPerMinute |-> MaxPerMinute, burstSize |-> 2] }

\* config.burstSize || config.requestsPerSecond, in thousandths
MaxTokens(c) == 1000 * (IF c.burstSize # 0 THEN c.burstSize ELSE c.requestsPerSecond)

Min(a, b) == IF a <= b THEN a ELSE b
Max(a, b) == IF a >= b THEN a ELSE b

\* Math.ceil(a / b) for b > 0
Ceil(a, b) == IF a <= 0 THEN -((-a) \div b) ELSE (a + b - 1) \div b

\* the limiter's mutable fields, as one value the drain loop works on
Limiter ==
  [tokens |-> tokens, lastRefill |-> lastRefill, minuteWindow |-> minuteWindow,
   queue |-> queue, processing |-> processing, wakeAt |-> wakeAt, loops |-> loops,
   admitted |-> admitted]

\* the slip of a refill that is not capped at the burst size
RefillUncapped(l, t) ==
  [l EXCEPT !.tokens = l.tokens + (t - l.lastRefill) * config.requestsPerSecond,
            !.lastRefill = t]

\* refill at time t
Refill(l, t) ==
  [l EXCEPT !.tokens = Min(MaxTokens(config), l.tokens + (t - l.lastRefill) * config.requestsPerSecond),
            !.lastRefill = t]

\* the slip of forgetting every entry of the window
CleanupMinuteWindowAll(w, t) == <<>>

\* cleanupMinuteWindow at time t: the entries younger than a minute
CleanupMinuteWindow(w, t) == SelectSeq(w, LAMBDA ts : ts > t - MINUTE)

\* tryAcquire at time t: whether a token was taken, and the limiter after
TryAcquire(l, t) ==
  LET limited == config.requestsPerMinute # 0
      cleaned == IF limited
                 THEN [l EXCEPT !.minuteWindow = CleanupMinuteWindow(l.minuteWindow, t)]
                 ELSE l
  IN  IF limited /\ Len(cleaned.minuteWindow) >= config.requestsPerMinute
        THEN [ok |-> FALSE, l |-> cleaned]
      ELSE IF cleaned.tokens >= 1000
        THEN [ok |-> TRUE,
              l |-> [cleaned EXCEPT !.tokens = @ - 1000,
                                    !.minuteWindow = IF limited THEN Append(@, t) ELSE @]]
      ELSE [ok |-> FALSE, l |-> cleaned]

\* Math.ceil((1 - this.tokens) / this.refillRate), ms
TimeToWait(l) == Ceil(1000 - l.tokens, config.requestsPerSecond)

\* the slip of resolving the newest caller first (pop for shift)
TakeLast(q) == [resolve |-> q[Len(q)], rest |-> SubSeq(q, 1, Len(q) - 1)]

\* this.queue.shift()
Shift(q) == [resolve |-> Head(q), rest |-> Tail(q)]

\* processQueue's while loop from its top, at time t, up to the await of
\* sleep or the loop's end, where processQueue returns
RECURSIVE DrainLoop(_, _)
DrainLoop(l, t) ==
  IF l.queue = <<>> THEN [l EXCEPT !.processing = FALSE, !.wakeAt = -1, !.loops = @ - 1]
  ELSE LET got == TryAcquire(Refill(l, t), t)
       IN  IF got.ok
             THEN DrainLoop([got.l EXCEPT !.queue = Shift(@).rest,
                                          !.admitted = Append(@, [caller |-> Shift(l.queue).resolve,
                                                                  at |-> t])], t)
           ELSE [got.l EXCEPT !.processing = TRUE,
                              !.wakeAt = t + Max(TimeToWait(got.l), SLEEP_FLOOR)]

\* processQueue called at time t: nothing when a loop is under way or no
\* caller waits, else the flag is set and the while loop entered
ProcessQueue(l, t) ==
  IF l.processing \/ l.queue = <<>> THEN l
  ELSE DrainLoop([l EXCEPT !.processing = TRUE, !.loops = @ + 1], t)

\* the limiter's fields become those of l
Becomes(l) ==
  /\ tokens' = l.tokens
  /\ lastRefill' = l.lastRefill
  /\ minuteWindow' = l.minuteWindow
  /\ queue' = l.queue
  /\ processing' = l.processing
  /\ wakeAt' = l.wakeAt
  /\ loops' = l.loops
  /\ admitted' = l.admitted

\* new RateLimiter(c): the bucket is full
LimiterInit(cs) ==
  /\ config \in cs
  /\ tokens = MaxTokens(config)
  /\ lastRefill = 0
  /\ minuteWindow = <<>>
  /\ queue = <<>>
  /\ processing = FALSE
  /\ wakeAt = -1
  /\ loops = 0
  /\ clockMs = 0
  /\ calledAt = <<>>
  /\ admitted = <<>>

\* the slip of queueing the caller without ever starting the drain loop
WaitForTokenNoDrain ==
  /\ Len(calledAt) < MaxCallers
  /\ clockMs <= MaxArrival * Step
  /\ calledAt' = Append(calledAt, clockMs)
  /\ Becomes([Limiter EXCEPT !.queue = Append(@, Len(calledAt) + 1)])
  /\ UNCHANGED <<config, clockMs>>
  /\ UNCHANGED notLimiter

\* the slip of entering the while loop on every call, whatever the flag says
WaitForTokenUnguarded ==
  /\ Len(calledAt) < MaxCallers
  /\ clockMs <= MaxArrival * Step
  /\ calledAt' = Append(calledAt, clockMs)
  /\ Becomes(DrainLoop([Limiter EXCEPT !.queue = Append(@, Len(calledAt) + 1),
                                       !.processing = TRUE,
                                       !.loops = @ + 1], clockMs))
  /\ UNCHANGED <<config, clockMs>>
  /\ UNCHANGED notLimiter

\* waitForToken: the caller's resolve is pushed, and processQueue is run
\* when no drain loop is under way
WaitForToken ==
  /\ Len(calledAt) < MaxCallers
  /\ clockMs <= MaxArrival * Step
  /\ calledAt' = Append(calledAt, clockMs)
  /\ LET pushed == [Limiter EXCEPT !.queue = Append(@, Len(calledAt) + 1)]
     IN  Becomes(IF ~processing THEN ProcessQueue(pushed, clockMs) ELSE pushed)
  /\ UNCHANGED <<config, clockMs>>
  /\ UNCHANGED notLimiter

\* the drain loop's timer fires and the loop goes round again
TimerFires ==
  /\ wakeAt # -1
  /\ clockMs >= wakeAt
  /\ Becomes(DrainLoop(Limiter, clockMs))
  /\ UNCHANGED <<config, clockMs, calledAt>>
  /\ UNCHANGED notLimiter

\* time passes; a timer that is due fires before it is MaxLate steps late
ClockTick ==
  /\ clockMs < MaxArrival * Step + MaxCallers * (SLEEP_FLOOR + MaxLate * Step)
  /\ wakeAt # -1 => clockMs + Step <= wakeAt + MaxLate * Step
  /\ clockMs' = clockMs + Step
  /\ UNCHANGED <<config, tokens, lastRefill, minuteWindow, queue, processing, wakeAt,
                 loops, calledAt, admitted>>
  /\ UNCHANGED notLimiter

\* time passes for the minute the window spans and the admissions that
\* follow it, the timer firing as under ClockTick
MinuteTick ==
  /\ clockMs < MINUTE + MaxArrival * Step + MaxCallers * (SLEEP_FLOOR + MaxLate * Step)
  /\ wakeAt # -1 => clockMs + Step <= wakeAt + MaxLate * Step
  /\ clockMs' = clockMs + Step
  /\ UNCHANGED <<config, tokens, lastRefill, minuteWindow, queue, processing, wakeAt,
                 loops, calledAt, admitted>>
  /\ UNCHANGED notLimiter

\* the slip of a reset that drops the waiting callers as well
ResetDroppingQueue ==
  /\ tokens # MaxTokens(config) \/ lastRefill # clockMs \/ minuteWindow # <<>>
  /\ tokens' = MaxTokens(config)
  /\ lastRefill' = clockMs
  /\ minuteWindow' = <<>>
  /\ queue' = <<>>
  /\ UNCHANGED <<config, processing, wakeAt, loops, clockMs, calledAt, admitted>>
  /\ UNCHANGED notLimiter

\* reset(): the bucket is full again and the window forgotten; the queue,
\* the flag and the timer are left as they are
Reset ==
  /\ tokens # MaxTokens(config) \/ lastRefill # clockMs \/ minuteWindow # <<>>
  /\ tokens' = MaxTokens(config)
  /\ lastRefill' = clockMs
  /\ minuteWindow' = <<>>
  /\ UNCHANGED <<config, queue, processing, wakeAt, loops, clockMs, calledAt, admitted>>
  /\ UNCHANGED notLimiter

(***************************************************************************)
(* Abuse prevention: checkAbuseLimit over the validation_requests table    *)
(***************************************************************************)

\* LIMITS
FREE_VALIDATIONS_PER_DAY == 5
FREE_VALIDATIONS_PER_WEEK == 20
COOLDOWN_BETWEEN_REQUESTS == 300
REQUESTS_PER_HOUR == 10
FREE_VALIDATIONS_PER_SERVICE_PER_DAY == 100
MIN_TIME_BETWEEN_SERVICE_VALIDATIONS == 3600
DAILY_BUDGET == 100000000

\* the windows of the queries, ms
HOUR_MS == 3600000
DAY_MS == 86400000
WEEK_MS == 7 * DAY_MS

\* a row of validation_requests
ValidationRequest(id, service, user, ip, mode, st, spent, err, at) ==
  [id |-> id, serviceId |-> service, requestedByAddress |-> user, requestedByIp |-> ip,
   validationMode |-> mode, status |-> st, tokensSpent |-> spent, errorMessage |-> err,
   createdAt |-> at]

\* an AbuseCheckRequest as the validate route builds it
AbuseCheckRequest(user, ip, service, mode) ==
  [userAddress |-> user, ipAddress |-> ip, serviceId |-> service, validationMode |-> mode]

\* an AbuseCheckResult; no reason is "" and no retryAfter is -1
Allowed == [allowed |-> TRUE, reason |-> "", retryAfter |-> -1]
Denied(why, after) == [allowed |-> FALSE, reason |-> why, retryAfter |-> after]

\* Math.ceil((midnight - now) / 1000) with midnight = setUTCHours(24, 0, 0, 0)
GetTimeUntilMidnight(t) == Ceil(((t \div DAY_MS) + 1) * DAY_MS - t, 1000)

\* getUTCDay: 0 is Sunday; day 0 of the epoch was a Thursday
GetUTCDay(t) == ((t \div DAY_MS) + 4) % 7

\* Math.ceil((nextMonday - now) / 1000)
GetTimeUntilNextWeek(t) ==
  LET left == (8 - GetUTCDay(t)) % 7
      daysUntilMonday == IF left = 0 THEN 7 ELSE left
  IN  Ceil(((t \div DAY_MS) + daysUntilMonday) * DAY_MS - t, 1000)

\* the rows the queries select
FreeByUserSince(user, since) ==
  { i \in DOMAIN validationRequests :
      /\ validationRequests[i].requestedByAddress = user
      /\ validationRequests[i].validationMode = "free"
      /\ validationRequests[i].createdAt >= since }
ByUser(user) ==
  { i \in DOMAIN validationRequests : validationRequests[i].requestedByAddress = user }
ByIpSince(ip, since) ==
  { i \in DOMAIN validationRequests :
      /\ validationRequests[i].requestedByIp = ip
      /\ validationRequests[i].createdAt >= since }
FreeByServiceSince(service, since) ==
  { i \in DOMAIN validationRequests :
      /\ validationRequests[i].serviceId = service
      /\ validationRequests[i].validationMode = "free"
      /\ validationRequests[i].createdAt >= since }
FreeSince(since) ==
  { i \in DOMAIN validationRequests :
      /\ validationRequests[i].validationMode = "free"
      /\ validationRequests[i].createdAt >= since }

\* ORDER BY created_at DESC: the rows of S that no row of S is newer than
Latest(S) ==
  { i \in S : \A j \in S : validationRequests[j].createdAt <= validationRequests[i].createdAt }

\* SUM(tokens_spent) over the rows of S
RECURSIVE SumSpent(_)
SumSpent(S) ==
  IF S = {} THEN 0
  ELSE LET i == CHOOSE j \in S : TRUE
       IN  validationRequests[i].tokensSpent + SumSpent(S \ {i})

\* what each check answers when its query was answered
UserDailyVerdictOver(user, since, t) ==
  IF Cardinality(FreeByUserSince(user, since)) > FREE_VALIDATIONS_PER_DAY
    THEN Denied("Daily limit reached", GetTimeUntilMidnight(t))
  ELSE Allowed
UserDailyVerdict(user, since, t) ==
  IF Cardinality(FreeByUserSince(user, since)) >= FREE_VALIDATIONS_PER_DAY
    THEN Denied("Daily limit reached", GetTimeUntilMidnight(t))
  ELSE Allowed
UserWeeklyVerdict(user, since, t) ==
  IF Cardinality(FreeByUserSince(user, since)) >= FREE_VALIDATIONS_PER_WEEK
    THEN Denied("Weekly limit reached", GetTimeUntilNextWeek(t))
  ELSE Allowed
\* the slip of a period that still holds when it has just run out
RecentVerdictInclusive(i, period, why, t) ==
  IF t - validationRequests[i].createdAt <= period * 1000
    THEN Denied(why, Ceil(period * 1000 - (t - validationRequests[i].createdAt), 1000))
  ELSE Allowed
\* i is the row the query returned first
RecentVerdict(i, period, why, t) ==
  IF t - validationRequests[i].createdAt < period * 1000
    THEN Denied(why, Ceil(period * 1000 - (t - validationRequests[i].createdAt), 1000))
  ELSE Allowed
IpVerdict(ip, since) ==
  IF Cardinality(ByIpSince(ip, since)) >= REQUESTS_PER_HOUR
    THEN Denied("IP rate limit exceeded", 3600)
  ELSE Allowed
ServiceCountVerdict(service, since, t) ==
  IF Cardinality(FreeByServiceSince(service, since)) >= FREE_VALIDATIONS_PER_SERVICE_PER_DAY
    THEN Denied("Service validation limit reached for today", GetTimeUntilMidnight(t))
  ELSE Allowed
BudgetVerdict(since, t) ==
  IF SumSpent(FreeSince(since)) >= DAILY_BUDGET
    THEN Denied("Daily validation budget exhausted", GetTimeUntilMidnight(t))
  ELSE Allowed

\* the slip of checking the IP address and the service before the user
NextCheckIpFirst(c, q) ==
  CASE c = "daily" -> IF q.ipAddress # "" THEN "ip" ELSE "service"
    [] c = "ip" -> "service"
    [] c = "service" -> "weekly"
    [] c = "weekly" -> "cooldown"
    [] c = "cooldown" -> "budget"
    [] c = "budget" -> "done"

\* the check checkAbuseLimit makes after check c
NextCheck(c, q) ==
  CASE c = "daily" -> "weekly"
    [] c = "weekly" -> "cooldown"
    [] c = "cooldown" -> IF q.ipAddress # "" THEN "ip" ELSE "service"
    [] c = "ip" -> "service"
    [] c = "service" -> "budget"
    [] c = "budget" -> "done"

\* the midnight (UTC) the validator's clock starts a millisecond before, ms
Midnight == 10 * DAY_MS

\* n rows alike, each created age ms before the validator's clock starts
History(n, user, mode, age) ==
  [i \in 1 .. n |-> ValidationRequest(i, "s2", user, "ip1", mode, "completed", 0, "",
                                      Midnight - 1 - age)]

\* one more row: a free run of the service 400 s before, a free run that
\* spent the whole daily budget, a run of the user 100 s before, a run of
\* the user a millisecond less than 300 s before
LastRows(id) ==
  { ValidationRequest(id, "s1", "u2", "ip2", "free", "completed", 0, "", Midnight - 1 - 400000),
    ValidationRequest(id, "s2", "u2", "ip2", "free", "completed", DAILY_BUDGET, "",
                      Midnight - 1 - 400000),
    ValidationRequest(id, "s2", "u1", "ip2", "user-paid", "completed", 0, "",
                      Midnight - 1 - 100000),
    ValidationRequest(id, "s2", "u1", "ip2", "free", "completed", 0, "",
                      Midnight - 1 - (COOLDOWN_BETWEEN_REQUESTS * 1000 - 1)) }

\* the validation_requests tables checkAbuseLimit is called on
Histories ==
  LET blocks == { History(n, "u1", "free", age) : n \in {4, 5}, age \in {DAY_MS + 1, DAY_MS, 400000} }
                  \cup { <<>>,
                         History(20, "u1", "free", DAY_MS + 1),
                         History(10, "u2", "free", 400000),
                         History(5, "u2", "free", 400000),
                         History(5, "u1", "user-paid", DAY_MS),
                         <<ValidationRequest(1, "s1", "u2", "ip2", "free", "completed", 0, "",
                                             Midnight - 1 - 2 * HOUR_MS)>> }
  IN  blocks \cup UNION { { Append(b, last) : last \in LastRows(Len(b) + 1) } : b \in blocks }

\* validateService's request: who asks and how, whether request.service has
\* a resource, its accepts (<<>> also when it is not an array), how many test cases
\* generateTestCases makes of it and the maxAmountRequired of its accept
EngineRequest(user, mode, hasResource, accepts, cases, price) ==
  [serviceId |-> "s1", userAddress |-> user, ipAddress |-> "ip1", validationMode |-> mode,
   hasResource |-> hasResource, accepts |-> accepts, cases |-> cases, price |-> price]

\* the TestResult executeTest returns, as far as it is read here, with what
\* executeTest did on the way: the status it met first, whether it signed a
\* payment with the validator's key and whether it sent the paid request
Outcome(first, code, passed, valid, err, signed, paidSent) ==
  [first |-> first, statusCode |-> code, passed |-> passed, schemaValid |-> valid,
   hasError |-> err, signed |-> signed, paidSent |-> paidSent]

\* no test case executed yet
NoOutcome == Outcome(-1, -1, FALSE, FALSE, FALSE, FALSE, FALSE)

\* the requests checkAbuseLimit is called with: user u1 asking for service s1
AbuseRequests ==
  { AbuseCheckRequest("u1", ip, "s1", mode) : ip \in {"", "ip1"}, mode \in {"free", "user-paid"} }

\* the validator when its modules are loaded
ValidatorInit(variants, tables) ==
  /\ variant \in variants
  /\ validationRequests \in tables
  /\ wallMs = Midnight - 1
  /\ abusePc = "idle"
  /\ abuseReq = AbuseCheckRequest("", "", "", "")
  /\ abuseAskedAt = 0
  /\ abuseResult = Allowed
  /\ abuseFailed = {}
  /\ nChecks = 0
  /\ runPc = "idle"
  /\ runReq = EngineRequest("", "", FALSE, <<>>, 0, 0)
  /\ runRow = 0
  /\ runTests = 0
  /\ runSpent = 0
  /\ runFetched = FALSE
  /\ runSigned = FALSE
  /\ runResult = NoOutcome
  /\ runPaid = 0
  /\ runOutcome = ""
  /\ runError = ""
  /\ runThrown = ""
  /\ nRuns = 0

\* One check of checkAbuseLimit ends: its query raised or returned an error
\* (raises), or was answered and the check returned verdict.  The Drizzle
\* module leaves through its catch on any raise, and also when the next check
\* dereferences a db that has become null; the Supabase module's check
\* returns allowed on an error and checkAbuseLimit goes on to the next check.
Conclude(c, raises, result) ==
  LET failedNow == IF raises THEN abuseFailed \cup {c} ELSE abuseFailed
      stop == \/ ~raises /\ ~result.allowed
              \/ raises /\ variant = "drizzle"
              \/ NextCheck(c, abuseReq) = "done"
      nullDb == ~stop /\ variant = "drizzle" /\ ~db
  IN  /\ abusePc = c
      /\ abusePc' = IF stop \/ nullDb THEN "done" ELSE NextCheck(c, abuseReq)
      /\ abuseResult' = IF stop /\ ~raises THEN result
                        ELSE IF stop \/ nullDb THEN Allowed
                        ELSE abuseResult
      /\ abuseFailed' = IF nullDb THEN failedNow \cup {"db"} ELSE failedNow
      /\ abuseAskedAt' = wallMs
      /\ UNCHANGED <<variant, abuseReq, nChecks, validationRequests, wallMs, engineVars>>
      /\ UNCHANGED notValidator

CheckAbuseLimitAll(q) ==
  /\ abusePc \in {"idle", "done"}
  /\ abuseReq' = q
  /\ nChecks' = nChecks + 1
  /\ abuseAskedAt' = wallMs
  /\ IF variant = "drizzle" /\ ~db
       THEN abusePc' = "done" /\ abuseResult' = Allowed /\ abuseFailed' = {"db"}
     ELSE abusePc' = "daily" /\ abuseResult' = Allowed /\ abuseFailed' = {}
  /\ UNCHANGED <<variant, validationRequests, wallMs, engineVars>>
  /\ UNCHANGED notValidator

\* checkAbuseLimit is called: the null-db return of the Drizzle module, the
\* user-paid return, or the first check is started.
CheckAbuseLimit(q) ==
  /\ abusePc \in {"idle", "done"}
  /\ abuseReq' = q
  /\ nChecks' = nChecks + 1
  /\ abuseAskedAt' = wallMs
  /\ IF variant = "drizzle" /\ ~db
       THEN abusePc' = "done" /\ abuseResult' = Allowed /\ abuseFailed' = {"db"}
     ELSE IF q.validationMode = "user-paid"
       THEN abusePc' = "done" /\ abuseResult' = Allowed /\ abuseFailed' = {}
     ELSE abusePc' = "daily" /\ abuseResult' = Allowed /\ abuseFailed' = {}
  /\ UNCHANGED <<variant, validationRequests, wallMs, engineVars>>
  /\ UNCHANGED notValidator

CheckUserDailyLimit(raises) ==
  /\ abusePc = "daily"
  /\ Conclude("daily", raises,
              UserDailyVerdict(abuseReq.userAddress, abuseAskedAt - DAY_MS, wallMs))

CheckUserWeeklyLimit(raises) ==
  /\ abusePc = "weekly"
  /\ Conclude("weekly", raises,
              UserWeeklyVerdict(abuseReq.userAddress, abuseAskedAt - WEEK_MS, wallMs))

CheckCooldownPeriod(raises) ==
  IF ByUser(abuseReq.userAddress) = {}
    THEN Conclude("cooldown", raises, Allowed)
  ELSE \E result \in { RecentVerdict(i, COOLDOWN_BETWEEN_REQUESTS, "Please wait", wallMs) :
                          i \in Latest(ByUser(abuseReq.userAddress)) } :
         Conclude("cooldown", raises, result)

CheckIpRateLimit(raises) ==
  /\ abusePc = "ip"
  /\ Conclude("ip", raises, IpVerdict(abuseReq.ipAddress, abuseAskedAt - HOUR_MS))

\* validations[0] is the newest row in the Supabase module, which orders its
\* query, and any of the rows in the Drizzle module, which does not.
CheckServiceLimit(raises) ==
  LET found == FreeByServiceSince(abuseReq.serviceId, abuseAskedAt - DAY_MS)
      counted == ServiceCountVerdict(abuseReq.serviceId, abuseAskedAt - DAY_MS, wallMs)
  IN  IF found = {} \/ ~counted.allowed
        THEN Conclude("service", raises, counted)
      ELSE \E result \in { RecentVerdict(i, MIN_TIME_BETWEEN_SERVICE_VALIDATIONS,
                                           "This service was recently validated", wallMs) :
                               i \in (IF variant = "supabase" THEN Latest(found) ELSE found) } :
             Conclude("service", raises, result)

CheckDailyBudget(raises) ==
  /\ abusePc = "budget"
  /\ Conclude("budget", raises, BudgetVerdict(abuseAskedAt - DAY_MS, wallMs))

\* A millisecond passes on the validator's clock.
WallTick ==
  /\ wallMs < Midnight - 1 + MaxWallTick
  /\ wallMs' = wallMs + 1
  /\ UNCHANGED <<validationRequests, abuseVars, engineVars>>
  /\ UNCHANGED notValidator

(***************************************************************************)
(* The validation engine: validateService                                  *)
(***************************************************************************)

\* an entry of service.accepts: its network as written, "" when it has
\* none, and the testnet keywords its lower-case form contains
Accept(network, keywords) == [network |-> network, keywords |-> keywords]

testnetKeywords == {"sepolia", "mumbai", "devnet", "testnet"}

GetFirstChain(accepts) ==
  IF accepts = <<>> THEN "" ELSE accepts[1].network

\* accept.network of the first entry whose lower-case network includes a
\* testnet keyword; null, here "", when there is none
GetTestnetChainFromService(accepts) ==
  LET marked == { i \in DOMAIN accepts : accepts[i].keywords \cap testnetKeywords # {} }
  IN  IF marked = {} THEN ""
      ELSE accepts[CHOOSE i \in marked : \A j \in marked : i <= j].network

\* the accepts lists of the services under test
AcceptLists ==
  { <<>>,
    <<Accept("", {})>>,
    <<Accept("base", {})>>,
    <<Accept("base", {}), Accept("solana", {})>>,
    <<Accept("base", {}), Accept("Base-Sepolia", {"sepolia"})>>,
    <<Accept("solana-devnet", {"devnet"}), Accept("base-sepolia", {"sepolia"})>> }

\* the requests validateService is called with
EngineRequests ==
  { EngineRequest("u1", mode, hasResource, accepts, cases, 10000) :
      mode \in {"free", "user-paid"}, hasResource \in BOOLEAN, accepts \in AcceptLists,
      cases \in 1 .. MaxCases }

\* the table with row id updated: one field set, or two
SetStatus(id, st, err) ==
  [i \in DOMAIN validationRequests |->
     IF validationRequests[i].id = id
       THEN [validationRequests[i] EXCEPT !.status = st, !.errorMessage = err]
     ELSE validationRequests[i]]
SetCompleted(id, spent) ==
  [i \in DOMAIN validationRequests |->
     IF validationRequests[i].id = id
       THEN [validationRequests[i] EXCEPT !.status = "completed", !.tokensSpent = spent]
     ELSE validationRequests[i]]

\* validateService throws the error with message msg to its caller
Throws(msg) ==
  /\ runPc' = "idle"
  /\ runOutcome' = "threw"
  /\ runThrown' = msg

\* a step inside the try block goes on to pc next, or raises the error with
\* message msg into the catch block; a query on a db that has become null
\* raises as well
GoesOn(failed, next, msg) ==
  /\ runPc' = IF failed THEN "catch" ELSE next
  /\ runError' = IF failed THEN msg ELSE runError
  /\ UNCHANGED runThrown

\* validateService is called: the null-db, missing-service and no-testnet
\* throws, or the insert of the request row is issued.
ValidateService(q) ==
  /\ runPc = "idle"
  /\ runReq' = q
  /\ nRuns' = nRuns + 1
  /\ runRow' = 0
  /\ runFetched' = FALSE
  /\ runSigned' = FALSE
  /\ runResult' = NoOutcome
  /\ runPaid' = 0
  /\ runTests' = 0
  /\ runSpent' = 0
  /\ runError' = ""
  /\ IF ~db THEN Throws("Database not available")
     ELSE IF ~q.hasResource THEN Throws("Service data is required")
     ELSE IF GetTestnetChainFromService(q.accepts) = "" /\ q.validationMode = "free"
       THEN Throws("Service does not support testnet")
     ELSE runPc' = "insert" /\ runOutcome' = "" /\ runThrown' = ""
  /\ UNCHANGED <<validationRequests, wallMs, abuseVars>>
  /\ UNCHANGED notValidator

\* The insert of the request row, status 'pending', returns; it stands
\* before the try block.
InsertRequest(raises) ==
  /\ runPc = "insert"
  /\ IF raises
       THEN Throws("insert into validation_requests failed")
            /\ UNCHANGED <<validationRequests, runRow>>
     ELSE /\ validationRequests' =
               Append(validationRequests,
                      ValidationRequest(Len(validationRequests) + 1, runReq.serviceId,
                                        runReq.userAddress, runReq.ipAddress,
                                        runReq.validationMode, "pending", 0, "", wallMs))
          /\ runRow' = Len(validationRequests) + 1
          /\ runPc' = "generate"
          /\ UNCHANGED <<runOutcome, runThrown>>
  /\ UNCHANGED <<runFetched, runSigned, runResult, runPaid>>
  /\ UNCHANGED <<runReq, runTests, runSpent, runError, nRuns, wallMs, abuseVars>>
  /\ UNCHANGED notValidator

GenerateTestCases ==
  /\ runPc = "generate"
  /\ runTests' = runReq.cases
  /\ runPc' = "execute"
  /\ UNCHANGED <<runFetched, runSigned, runResult, runPaid>>
  /\ UNCHANGED <<runReq, runRow, runSpent, runOutcome, runError, runThrown, nRuns,
                 validationRequests, wallMs, abuseVars>>
  /\ UNCHANGED notValidator

\* what a test case meets: the status of the response to the request made
\* without payment and that of the response to the paid one (0 when the
\* fetch fails), whether the 402 body has accepts, whether the signing
\* succeeds, whether the paid response fits the expected schema
TestEnv(first, hasAccepts, signs, paid, valid) ==
  [first |-> first, hasAccepts |-> hasAccepts, signs |-> signs, paid |-> paid, valid |-> valid]

TestEnvs ==
  { TestEnv(first, FALSE, FALSE, 0, FALSE) : first \in {200, 204, 500, 0} }
    \cup { TestEnv(402, hasAccepts, signs, paid, valid) :
             hasAccepts \in BOOLEAN, signs \in BOOLEAN, paid \in {200, 402, 0},
             valid \in BOOLEAN }

\* the result of executeTest's catch block
Caught(first, signed, paidSent) == Outcome(first, 0, FALSE, FALSE, TRUE, signed, paidSent)

\* the slip of taking 200 alone for success
OkOnly200(status) == status = 200

\* response.ok
Ok(status) == status >= 200 /\ status <= 299

\* the slip of signing with the validator's key in either mode
ExecuteTestSigningAlways(q, chain, e) ==
  IF e.first = 0 THEN Caught(0, FALSE, FALSE)
  ELSE IF e.first # 402
    THEN Outcome(e.first, e.first, Ok(e.first), TRUE, ~Ok(e.first), FALSE, FALSE)
  ELSE IF ~e.hasAccepts THEN Caught(402, FALSE, FALSE)
  ELSE IF chain # ""
    THEN IF ~e.signs THEN Caught(402, FALSE, FALSE)
         ELSE IF e.paid = 0 THEN Caught(402, TRUE, TRUE)
         ELSE Outcome(402, e.paid, Ok(e.paid) /\ e.valid, e.valid,
                      ~(Ok(e.paid) /\ e.valid), TRUE, TRUE)
  ELSE Caught(402, FALSE, FALSE)

\* executeTest for request q with testnetChain chain, meeting e
ExecuteTestResult(q, chain, e) ==
  IF e.first = 0 THEN Caught(0, FALSE, FALSE)
  ELSE IF e.first # 402
    THEN Outcome(e.first, e.first, Ok(e.first), TRUE, ~Ok(e.first), FALSE, FALSE)
  ELSE IF ~e.hasAccepts THEN Caught(402, FALSE, FALSE)
  ELSE IF q.validationMode = "free" /\ chain # ""
    THEN IF ~e.signs THEN Caught(402, FALSE, FALSE)
         ELSE IF e.paid = 0 THEN Caught(402, TRUE, TRUE)
         ELSE Outcome(402, e.paid, Ok(e.paid) /\ e.valid, e.valid,
                      ~(Ok(e.paid) /\ e.valid), TRUE, TRUE)
  ELSE Caught(402, FALSE, FALSE)

\* what a result adds to totalTokensSpent: the maxAmountRequired of the
\* testnet accept for a status of 200 when there is a testnet chain
TokensSpent(result, chain, price) ==
  IF result.statusCode = 200 /\ chain # "" THEN price ELSE 0

\* executeTest returns a result, whatever happened inside it, and
\* totalTokensSpent is brought up to date.  The insert of the test case row
\* is issued.
ExecuteTest(e) ==
  LET chain == GetTestnetChainFromService(runReq.accepts)
      result == ExecuteTestResult(runReq, chain, e)
  IN  /\ runPc = "execute"
      /\ runFetched' = TRUE
      /\ runSigned' = (runSigned \/ result.signed)
      /\ runResult' = result
      /\ runPaid' = IF result.signed /\ result.paidSent /\ result.statusCode = 200
                      THEN runPaid + 1 ELSE runPaid
      /\ runSpent' = runSpent + TokensSpent(result, chain, runReq.price)
      /\ GoesOn(~db, "store", "db is null")
      /\ UNCHANGED <<runReq, runRow, runTests, runOutcome, nRuns, validationRequests, wallMs,
                     abuseVars>>
      /\ UNCHANGED notValidator

\* The insert of the test case row returns and the iteration's result goes
\* out of scope; after the last test case the update to 'completed' is
\* issued.
StoreTestCase(raises) ==
  /\ runPc = "store"
  /\ runTests' = runTests - 1
  /\ IF runTests > 1
       THEN GoesOn(raises, "execute", "insert into validation_test_cases failed")
     ELSE GoesOn(raises \/ ~db, "complete",
                 IF raises THEN "insert into validation_test_cases failed" ELSE "db is null")
  /\ runResult' = NoOutcome
  /\ UNCHANGED <<runFetched, runSigned, runPaid>>
  /\ UNCHANGED <<runReq, runRow, runSpent, runOutcome, nRuns, validationRequests, wallMs,
                 abuseVars>>
  /\ UNCHANGED notValidator

\* The update of the request row to 'completed' returns; the select of the
\* service's validated_services row is issued.
MarkCompleted(raises) ==
  /\ runPc = "complete"
  /\ validationRequests' = IF raises THEN validationRequests
                           ELSE SetCompleted(runRow, runSpent)
  /\ GoesOn(raises \/ ~db, "aggregate",
            IF raises THEN "update of validation_requests failed" ELSE "db is null")
  /\ UNCHANGED <<runFetched, runSigned, runResult, runPaid>>
  /\ UNCHANGED <<runReq, runRow, runTests, runSpent, runOutcome, nRuns, wallMs, abuseVars>>
  /\ UNCHANGED notValidator

\* The select of the validated_services row returns; its update or insert is
\* issued.
LookupValidatedService(raises) ==
  /\ runPc = "aggregate"
  /\ GoesOn(raises \/ ~db, "save",
            IF raises THEN "select from validated_services failed" ELSE "db is null")
  /\ UNCHANGED <<runFetched, runSigned, runResult, runPaid>>
  /\ UNCHANGED <<runReq, runRow, runTests, runSpent, runOutcome, nRuns, validationRequests,
                 wallMs, abuseVars>>
  /\ UNCHANGED notValidator

\* The update or insert of the validated_services row returns, and
\* validateService returns its result.
SaveValidatedService(raises) ==
  /\ runPc = "save"
  /\ IF raises
       THEN /\ runPc' = "catch"
            /\ runError' = "write to validated_services failed"
            /\ UNCHANGED runOutcome
     ELSE runPc' = "idle" /\ runOutcome' = "returned" /\ UNCHANGED runError
  /\ UNCHANGED <<runFetched, runSigned, runResult, runPaid>>
  /\ UNCHANGED <<runReq, runRow, runTests, runSpent, runThrown, nRuns, validationRequests,
                 wallMs, abuseVars>>
  /\ UNCHANGED notValidator

\* The catch block: the update of the request row to 'failed' with the
\* caught error's message, then the caught error is thrown on; when the
\* update raises, or db is null, the error of the update is thrown instead.
MarkFailed(raises) ==
  /\ runPc = "catch"
  /\ IF raises \/ ~db
       THEN /\ UNCHANGED validationRequests
            /\ Throws(IF raises THEN "update of validation_requests failed" ELSE "db is null")
     ELSE /\ validationRequests' = SetStatus(runRow, "failed", runError)
          /\ Throws(runError)
  /\ UNCHANGED <<runFetched, runSigned, runResult, runPaid>>
  /\ UNCHANGED <<runReq, runRow, runTests, runSpent, runError, nRuns, wallMs, abuseVars>>
  /\ UNCHANGED notValidator

(***************************************************************************)
(* The validation score: calculateValidationScore                          *)
(***************************************************************************)

\* a TestResult, as far as the score reads it; no errorMessage is ""
TestResult(code, valid, ms, err) ==
  [statusCode |-> code, schemaValid |-> valid, responseTime |-> ms, errorMessage |-> err]

TestResults ==
  { TestResult(code, valid, ms, err) :
      code \in {200, 402}, valid \in BOOLEAN, ms \in {1999, 2000}, err \in {"", "Status: 402"} }

\* Math.round of a / b, for a >= 0 and b > 0
Round(a, b) == (2 * a + b) \div (2 * b)

\* testScore of one result
TestScoreSwapped(r) ==
  (IF r.statusCode = 200 THEN 40 ELSE 0) + (IF r.schemaValid THEN 30 ELSE 0)
    + (IF r.responseTime < 2000 THEN 20 ELSE 0) + (IF r.errorMessage = "" THEN 10 ELSE 0)
TestScore(r) ==
  (IF r.statusCode = 200 THEN 30 ELSE 0) + (IF r.schemaValid THEN 40 ELSE 0)
    + (IF r.responseTime < 2000 THEN 20 ELSE 0) + (IF r.errorMessage = "" THEN 10 ELSE 0)

RECURSIVE TotalScore(_)
TotalScore(results) ==
  IF results = <<>> THEN 0 ELSE TestScore(Head(results)) + TotalScore(Tail(results))

CalculateValidationScore(results) ==
  IF Len(results) = 0 THEN 0 ELSE Min(100, Round(TotalScore(results), Len(results)))

\* a run before its first test
ScoreInit ==
  /\ testResults = <<>>
  /\ score = -1
  /\ validationStatus = ""

\* validateService scores the run and classifies it.
ScoreRun ==
  /\ score = -1
  /\ score' = CalculateValidationScore(testResults)
  /\ validationStatus' = IF score' >= 70 THEN "verified" ELSE "failed"
  /\ UNCHANGED testResults
  /\ UNCHANGED notScore

\* testResults.push(result): the result of one more test case is in.
PushResult(r) ==
  /\ score = -1
  /\ Len(testResults) < MaxResults
  /\ testResults' = Append(testResults, r)
  /\ UNCHANGED <<score, validationStatus>>
  /\ UNCHANGED notScore

(***************************************************************************)
(* The payment signers                                                     *)
(***************************************************************************)

\* the networks keyMap has an entry for
keyMap == {"base-sepolia", "sepolia", "optimism-sepolia", "arbitrum-sepolia", "polygon-mumbai"}

\* the network names the signers are called with
SignerNetworks == keyMap \cup {"Base-Sepolia", "SEPOLIA", "base", "solana-devnet"}

\* network.toLowerCase()
NetworkToLowerCase(network) ==
  CASE network = "Base-Sepolia" -> "base-sepolia"
    [] network = "SEPOLIA" -> "sepolia"
    [] OTHER -> network

\* the key an entry of keyMap holds: the value of its environment variable,
\* named here by its network; undefined, here "", when the variable is unset
\* or keyMap has no such entry
KeyOrBaseSepolia(name) ==
  IF name \in keyMap /\ name \in env THEN name
  ELSE IF "base-sepolia" \in env THEN "base-sepolia"
  ELSE ""
Key(name) == IF name \in keyMap /\ name \in env THEN name ELSE ""

NotSigned(err) == [signed |-> FALSE, key |-> "", error |-> err]
Signed(key) == [signed |-> TRUE, key |-> key, error |-> ""]

\* getValidatorPrivateKey and the throw or the signature that follow it
SignWith(privateKey) ==
  IF privateKey = "" THEN NotSigned("No validator wallet configured for network")
  ELSE Signed(privateKey)

\* the signers when the modules are loaded, with these variables set
SignerInit(envs) ==
  /\ env \in envs
  /\ signCall = [signer |-> "", network |-> ""]
  /\ signResult = NotSigned("")

\* signX402Payment looks the key up under the lower-cased network
SignX402Payment(network) ==
  /\ signCall' = [signer |-> "signX402Payment", network |-> network]
  /\ signResult' = SignWith(Key(NetworkToLowerCase(network)))
  /\ UNCHANGED env
  /\ UNCHANGED notSigner

\* signTestnetPayment looks the key up under the network as it is written
SignTestnetPayment(network) ==
  /\ signCall' = [signer |-> "signTestnetPayment", network |-> network]
  /\ signResult' = SignWith(Key(network))
  /\ UNCHANGED env
  /\ UNCHANGED notSigner

(***************************************************************************)
(* POST /api/validate: checkAbuseLimit, then validateService               *)
(***************************************************************************)

\* the requests in flight at a time
PostSlots == {1, 2}

\* the requests posted: the route gives 'unknown' for a missing IP header
PostRequests ==
  { AbuseCheckRequest(user, "unknown", service, mode) :
      user \in {"u1", "u2"}, service \in {"s1", "s3"}, mode \in {"free", "user-paid"} }

\* the tables the route serves on: empty, or four free runs of u1 400 s old
PostTables == { <<>>, History(4, "u1", "free", 400000) }

\* no request received yet
PostInit ==
  /\ postPc = [p \in PostSlots |-> "idle"]
  /\ postReq = [p \in PostSlots |-> AbuseCheckRequest("", "", "", "")]
  /\ nPosts = 0

\* checkAbuseLimit(q) answered at time t by a datastore that answers every
\* query: allowed when no check denies
AbuseAllows(q, t) ==
  \/ q.validationMode = "user-paid"
  \/ /\ UserDailyVerdict(q.userAddress, t - DAY_MS, t).allowed
     /\ UserWeeklyVerdict(q.userAddress, t - WEEK_MS, t).allowed
     /\ \A i \in Latest(ByUser(q.userAddress)) :
           RecentVerdict(i, COOLDOWN_BETWEEN_REQUESTS, "Please wait", t).allowed
     /\ q.ipAddress # "" => IpVerdict(q.ipAddress, t - HOUR_MS).allowed
     /\ ServiceCountVerdict(q.serviceId, t - DAY_MS, t).allowed
     /\ \E i \in FreeByServiceSince(q.serviceId, t - DAY_MS) \cup {0} :
           i = 0 \/ RecentVerdict(i, MIN_TIME_BETWEEN_SERVICE_VALIDATIONS,
                                  "This service was recently validated", t).allowed
     /\ BudgetVerdict(t - DAY_MS, t).allowed

\* POST: the request is received and checkAbuseLimit returns, allowed at
\* once when db is null; a denied request is answered 429, for an allowed
\* one validateService is called.
PostValidate(p, q) ==
  /\ postPc[p] \in {"idle", "denied", "inserted", "threw"}
  /\ nPosts' = nPosts + 1
  /\ postReq' = [postReq EXCEPT ![p] = q]
  /\ postPc' = [postPc EXCEPT ![p] = IF ~db \/ AbuseAllows(q, wallMs) THEN "admitted"
                                     ELSE "denied"]
  /\ UNCHANGED validatorVars
  /\ UNCHANGED notPost

\* validateService up to its insert of the request row: the throw on a
\* null db, or the row is created, status pending.  None of the services
\* posted lacks a resource or a testnet accept.
PostInsert(p) ==
  /\ postPc[p] = "admitted"
  /\ IF ~db
       THEN postPc' = [postPc EXCEPT ![p] = "threw"] /\ UNCHANGED validationRequests
     ELSE /\ validationRequests' =
               Append(validationRequests,
                      ValidationRequest(Len(validationRequests) + 1, postReq[p].serviceId,
                                        postReq[p].userAddress, postReq[p].ipAddress,
                                        postReq[p].validationMode, "pending", 0, "", wallMs))
          /\ postPc' = [postPc EXCEPT ![p] = "inserted"]
  /\ UNCHANGED <<postReq, nPosts, wallMs, abuseVars, engineVars>>
  /\ UNCHANGED notPost

\* the state the program starts in: the gateway loaded, rateLimiters.cdp
\* constructed
Init ==
  /\ GatewayInit
  /\ LimiterInit({c \in Configs : c.requestsPerMinute # 0})
  /\ ValidatorInit({"drizzle"}, {<<>>})
  /\ ScoreInit
  /\ SignerInit({{"base-sepolia"}})
  /\ PostInit

\* requests of every shape, served one after the other, on a datastore that
\* may fail
Next ==
  \/ \E q \in Requests : nReq < MaxRequests /\ Receive(1, q)
  \/ Handler(1, Faulty)
  \/ Tick
  \/ DbUp
  \/ DbDown

Spec == Init /\ [][Next]_vars

\* requests carrying proofs built from the service's terms, one after the
\* other, on a datastore that never fails
NextReplay ==
  \/ \E q \in ReplayRequests : nReq < MaxReplays /\ Receive(1, q)
  \/ Handler(1, Healthy)
  \/ Tick
  \/ DbUp

SpecReplay == Init /\ [][NextReplay]_vars

\* one payer's requests, two of them in flight together, on a datastore that
\* never fails
NextRace ==
  \/ \E r \in Slots, q \in RaceRequests : nReq < MaxRace /\ Receive(r, q)
  \/ \E r \in Slots : Handler(r, Healthy)
  \/ Tick
  \/ DbUp

SpecRace == Init /\ [][NextRace]_vars

\* two payers submitting and resubmitting their proofs, one request after
\* the other, on a datastore that never fails
NextResubmit ==
  \/ \E q \in ResubmitRequests : nReq < MaxResubmit /\ Receive(1, q)
  \/ Handler(1, Healthy)
  \/ Tick
  \/ DbUp

\* callers of one limiter arriving while the clock runs and its timers fire
NextLimiter ==
  \/ WaitForToken
  \/ TimerFires
  \/ ClockTick

\* a limiter of either configuration, freshly constructed
InitLimiter ==
  /\ GatewayInit
  /\ LimiterInit(Configs)
  /\ ValidatorInit({"drizzle"}, {<<>>})
  /\ ScoreInit
  /\ SignerInit({{"base-sepolia"}})
  /\ PostInit

SpecLimiter ==
  /\ InitLimiter
  /\ [][NextLimiter]_vars
  /\ WF_vars(TimerFires)
  /\ WF_vars(ClockTick)

\* callers of a limiter with a cap per minute, over the minute it spans
NextWindow ==
  \/ WaitForToken
  \/ TimerFires
  \/ MinuteTick

InitWindow ==
  /\ GatewayInit
  /\ LimiterInit(WindowConfigs)
  /\ ValidatorInit({"drizzle"}, {<<>>})
  /\ ScoreInit
  /\ SignerInit({{"base-sepolia"}})
  /\ PostInit

SpecWindow ==
  /\ InitWindow
  /\ [][NextWindow]_vars
  /\ WF_vars(TimerFires)
  /\ WF_vars(MinuteTick)

\* callers of a limiter of either configuration that is reset at any time
NextReset ==
  \/ WaitForToken
  \/ TimerFires
  \/ ClockTick
  \/ Reset

SpecReset == InitLimiter /\ [][NextReset]_vars

SpecResubmit == Init /\ [][NextResubmit]_vars

\* one payer's requests, one after the other, while hours pass and the cron
\* calls the cleanup, on a datastore that never fails
NextCleanup ==
  \/ \E q \in CleanupRequests : nReq < MaxCleanupRequests /\ Receive(1, q)
  \/ Handler(1, Healthy)
  \/ \E d \in Lapses : Elapse(d)
  \/ Tick
  \/ Cleanup
  \/ DbUp

SpecCleanup == Init /\ [][NextCleanup]_vars

\* POST /api/validate requests, two in flight at a time, received once the
\* database is connected, on a datastore that answers every query
NextValidate ==
  \/ \E p \in PostSlots, q \in PostRequests : nPosts < MaxPosts /\ db /\ PostValidate(p, q)
  \/ \E p \in PostSlots : PostInsert(p)
  \/ WallTick
  \/ DbUp

InitValidate ==
  /\ GatewayInit
  /\ LimiterInit({c \in Configs : c.requestsPerMinute # 0})
  /\ ValidatorInit({"drizzle"}, PostTables)
  /\ ScoreInit
  /\ SignerInit({{"base-sepolia"}})
  /\ PostInit

SpecValidate == InitValidate /\ [][NextValidate]_vars

\* checkAbuseLimit called on tables of either module, on a datastore that
\* may fail and a handle that comes and goes
NextAbuse ==
  \/ \E q \in AbuseRequests : nChecks < MaxChecks /\ CheckAbuseLimit(q)
  \/ \E raises \in Faulty : CheckUserDailyLimit(raises)
  \/ \E raises \in Faulty : CheckUserWeeklyLimit(raises)
  \/ \E raises \in Faulty : CheckCooldownPeriod(raises)
  \/ \E raises \in Faulty : CheckIpRateLimit(raises)
  \/ \E raises \in Faulty : CheckServiceLimit(raises)
  \/ \E raises \in Faulty : CheckDailyBudget(raises)
  \/ WallTick
  \/ DbUp
  \/ DbDown

InitAbuse ==
  /\ GatewayInit
  /\ LimiterInit({c \in Configs : c.requestsPerMinute # 0})
  /\ ValidatorInit({"drizzle", "supabase"}, Histories)
  /\ ScoreInit
  /\ SignerInit({{"base-sepolia"}})
  /\ PostInit

SpecAbuse == InitAbuse /\ [][NextAbuse]_vars

\* validateService called time after time on a datastore that may fail and
\* a handle that comes and goes
NextEngine ==
  \/ \E q \in EngineRequests : nRuns < MaxRuns /\ ValidateService(q)
  \/ \E raises \in Faulty : InsertRequest(raises)
  \/ GenerateTestCases
  \/ \E e \in TestEnvs : ExecuteTest(e)
  \/ \E raises \in Faulty : StoreTestCase(raises)
  \/ \E raises \in Faulty : MarkCompleted(raises)
  \/ \E raises \in Faulty : LookupValidatedService(raises)
  \/ \E raises \in Faulty : SaveValidatedService(raises)
  \/ \E raises \in Faulty : MarkFailed(raises)
  \/ WallTick
  \/ DbUp
  \/ DbDown

SpecEngine == Init /\ [][NextEngine]_vars

\* a run gathering test results of every make, scored after any of them
NextScore ==
  \/ \E r \in TestResults : PushResult(r)
  \/ ScoreRun

SpecScore == Init /\ [][NextScore]_vars

\* either signer called for any network, under every choice of configured keys
NextSigner ==
  \/ \E network \in SignerNetworks : SignX402Payment(network)
  \/ \E network \in SignerNetworks : SignTestnetPayment(network)

InitSigner ==
  /\ GatewayInit
  /\ LimiterInit({c \in Configs : c.requestsPerMinute # 0})
  /\ ValidatorInit({"drizzle"}, {<<>>})
  /\ ScoreInit
  /\ SignerInit(SUBSET keyMap)
  /\ PostInit

SpecSigner == InitSigner /\ [][NextSigner]_vars

(***************************************************************************)
(* Claims about the gateway.                                               *)
(***************************************************************************)

\* the (nonce, payer) pair a handler's proof names
PairOf(r) == <<req[r].header.proof.nonce, ToLowerCase(req[r].header.proof.from)>>

\* in this step verifyPayment returns true to handler r
ReturnsTrue(r) == verdict[r] # "true" /\ verdict'[r] = "true"

\* C1: replay prevention.  verifyPayment returns true at most once per
\* (nonce, from): a call that returns true is never for a pair an earlier
\* call already returned true for.
C1_AtMostOncePerNonce ==
  [][\A r \in Slots : ReturnsTrue(r) => PairOf(r) \notin accepted]_vars

\* C2: of two requests in flight together with the same proof, at most one
\* gets true from verifyPayment and at most one is forwarded upstream.
C2_OneWinner ==
  \A r1, r2 \in Slots :
     ( /\ r1 # r2
       /\ pc[r1] # "idle" /\ pc[r2] # "idle"
       /\ req[r1] = req[r2] )
     => /\ ~(verdict[r1] = "true" /\ verdict[r2] = "true")
        /\ ~(upstream[r1] /\ upstream[r2])

\* C3: the verifier fails closed.  A handler whose nonce lookup or insert
\* met an unavailable datastore or raised gets false from verifyPayment and
\* does not call the upstream.
C3_FailClosed ==
  \A r \in Slots : dbFault[r] => (verdict[r] # "true" /\ ~upstream[r])

\* ---- what the claims speak of, stated on the request itself ----

ProofOf(r) == req[r].header.proof

\* the handler is serving a request whose header decodes to a PaymentProof
\* and whose target is a registered service
HasProof(r) ==
  /\ pc[r] # "idle"
  /\ req[r].segments >= 2
  /\ req[r].header.kind = "proof"
  /\ \E s \in userServices : s.ownerAddress = req[r].userId /\ s.id = req[r].serviceId

TargetOf(r) ==
  CHOOSE s \in userServices : s.ownerAddress = req[r].userId /\ s.id = req[r].serviceId

AmountMatches(r) == ProofOf(r).amount = TargetOf(r).pricePerRequest
RecipientMatches(r) == ProofOf(r).recipient.id = TargetOf(r).paymentRecipient.id
NetworkMatches(r) == ProofOf(r).network = TargetOf(r).network
SignedByPayer(r) == ProofOf(r).signature = "byFrom"
Age(r, t) == IF t >= ProofOf(r).timestamp THEN t - ProofOf(r).timestamp
             ELSE ProofOf(r).timestamp - t

\* the responses the gateway makes itself when it turns a request away
Rejections ==
  {R400, R404, R503Db, R402Page, R402Format, R402Failed}
  \cup {R503Status(s.status) : s \in userServices}
  \cup {R402Challenge(s) : s \in userServices}

\* C4: a failed verification never burns a nonce.  A handler that got
\* false from verifyPayment has inserted no nonce row; a handler that has
\* inserted one has a proof that passes the amount, recipient, network,
\* freshness and signature checks; and the table changes only by such an
\* insert, of the handler's own (nonce, payer) row, for a nonce not in it.
C4_InsertedOnlyWhenVerified ==
  \A r \in Slots :
     /\ verdict[r] = "false" => ~wrote[r]
     /\ wrote[r] =>
          /\ HasProof(r) /\ verdict[r] = "true"
          /\ AmountMatches(r) /\ RecipientMatches(r) /\ NetworkMatches(r)
          /\ \E t \in Epoch .. now : Age(r, t) <= 300
          /\ SignedByPayer(r)

C4_TableChangesOnlyByInsert ==
  paymentNonces' # paymentNonces =>
     \E r \in Slots :
        /\ ~wrote[r] /\ wrote'[r] /\ verdict'[r] = "true"
        /\ ~(\E old \in paymentNonces : old.nonce = ProofOf(r).nonce)
        /\ \E row \in paymentNonces' :
              /\ paymentNonces' = paymentNonces \cup {row}
              /\ row.nonce = ProofOf(r).nonce
              /\ row.userAddress = [ProofOf(r).from EXCEPT !.mixed = FALSE]
              /\ row.serviceId = req[r].serviceId

\* C4: both halves together, the state of every handler and every change of
\* the table.
C4_NoBurn ==
  /\ [](C4_InsertedOnlyWhenVerified)
  /\ [][C4_TableChangesOnlyByInsert]_vars

\* a handler was refused with a bad signature and left no row behind, and
\* another request before it had its nonce stored
C4_Witness ==
  \E r \in Slots :
     /\ pc[r] = "done" /\ HasProof(r) /\ verdict[r] = "false" /\ ~wrote[r]
     /\ ~SignedByPayer(r) /\ AmountMatches(r) /\ RecipientMatches(r) /\ NetworkMatches(r)
     /\ Age(r, Epoch) <= 300 /\ Age(r, now) <= 300
     /\ paymentNonces # {}
     /\ ~(\E row \in paymentNonces : row.nonce = ProofOf(r).nonce)

\* the lookup of the handler's service went through: the answer is neither
\* "Database not available" nor the 500 of a lookup that raised
LookedUp(r) ==
  pc[r] = "done" /\ req[r].segments >= 2 /\ resp[r] # R503Db /\ resp[r] # R500

\* C5: a proof whose amount, recipient (beyond letter case) or network is
\* not the service's is never verified, whatever its other fields: the
\* handler gets false from verifyPayment, answers "verification failed",
\* calls no upstream and stores no nonce.
C5_MismatchRejected ==
  \A r \in Slots :
     ( /\ HasProof(r) /\ TargetOf(r).status = "active"
       /\ ~(AmountMatches(r) /\ RecipientMatches(r) /\ NetworkMatches(r)) )
     => /\ verdict[r] # "true" /\ ~upstream[r] /\ ~wrote[r]
        /\ LookedUp(r) => (verdict[r] = "false" /\ resp[r] = R402Failed)

\* a proof that is right but for its network (signed by its payer, fresh,
\* nonce unused) was refused
C5_Witness ==
  \E r \in Slots :
     /\ HasProof(r) /\ TargetOf(r).status = "active" /\ LookedUp(r)
     /\ AmountMatches(r) /\ RecipientMatches(r) /\ ~NetworkMatches(r)
     /\ SignedByPayer(r) /\ Age(r, now) = 0
     /\ paymentNonces = {}
     /\ verdict[r] = "false" /\ resp[r] = R402Failed

\* the step in which handler r, its service found active and its header
\* decoded to a proof, runs verifyPayment's checks 1-4
RunsSyncChecks(r) ==
  /\ pc[r] = "lookup" /\ pc'[r] # "lookup"
  /\ HasProof(r) /\ TargetOf(r).status = "active"
  /\ resp'[r] # R500

\* C6: a proof whose timestamp is more than 300 seconds from the current
\* time, either way, is refused whatever its signature and nonce; one within
\* 300 seconds (300 included) passes the freshness check, so that with the
\* right amount, recipient and network it goes on to the nonce check.
C6_Freshness ==
  [][\A r \in Slots :
       RunsSyncChecks(r) =>
         /\ Age(r, now) > 300 => (verdict'[r] = "false" /\ resp'[r] = R402Failed)
         /\ ( /\ Age(r, now) <= 300
              /\ AmountMatches(r) /\ RecipientMatches(r) /\ NetworkMatches(r) )
            => (verdict'[r] = "none" /\ pc'[r] \in {"nonce", "recover"})]_vars

\* a proof 301 seconds in the future, right in all else, was refused while
\* the table already held a nonce
C6_Witness ==
  \E r \in Slots :
     /\ HasProof(r) /\ TargetOf(r).status = "active" /\ LookedUp(r)
     /\ now = Epoch /\ ProofOf(r).timestamp = now + 301
     /\ AmountMatches(r) /\ RecipientMatches(r) /\ NetworkMatches(r) /\ SignedByPayer(r)
     /\ paymentNonces # {}
     /\ verdict[r] = "false" /\ resp[r] = R402Failed

\* the proof a client builds from the gateway's own 402 challenge for the
\* service, signed by the payer and fresh, its nonce used by no other payer
RoundTrip(r) ==
  /\ HasProof(r) /\ TargetOf(r).status = "active"
  /\ ProofOf(r).amount = Generate402Accepts(TargetOf(r)).maxAmountRequired
  /\ ProofOf(r).recipient = Generate402Accepts(TargetOf(r)).payTo
  /\ ProofOf(r).network = Generate402Accepts(TargetOf(r)).network
  /\ SignedByPayer(r)
  /\ \A t \in Epoch .. now : Age(r, t) <= 300
  /\ \A row \in paymentNonces :
        row.nonce = ProofOf(r).nonce => row.userAddress = PairOf(r)[2]

\* C7: a proof built from the 402 challenge verifies the first time it is
\* submitted and is refused when submitted again: verifyPayment's answer to
\* it is true exactly when its (nonce, payer) was not accepted before.
C7_RoundTripOnce ==
  [][\A r \in Slots :
       (RoundTrip(r) /\ verdict[r] = "none" /\ verdict'[r] # "none")
       => (verdict'[r] = "true" <=> PairOf(r) \notin accepted)]_vars

\* C8: the upstream is called only for a request whose service was found
\* active and whose proof verifyPayment returned true for; a request the
\* gateway itself turns away with 400, 404, 503 or 402 has called no upstream,
\* stored no nonce and started no usage record, and both tables are written
\* only by handlers that have been forwarded.
C8_ForwardedOnlyWhenVerified ==
  \A r \in Slots :
     /\ upstream[r] =>
          (HasProof(r) /\ TargetOf(r).status = "active" /\ verdict[r] = "true")
     /\ (pc[r] = "done" /\ resp[r] \in Rejections) =>
          (~upstream[r] /\ ~wrote[r] /\ track[r] = "none")

C8_TablesWrittenOnlyWhenForwarded ==
  /\ \A r \in Slots :
       (pc[r] # "done" /\ pc'[r] = "done" /\ resp'[r] \in Rejections)
       => (paymentNonces' = paymentNonces /\ apiCalls' = apiCalls)
  /\ (paymentNonces' # paymentNonces \/ apiCalls' # apiCalls)
     => \E r \in Slots : upstream'[r] /\ verdict'[r] = "true"

\* C8: both halves together, the state of every handler and every write to
\* the two tables.
C8_NoUpstreamUnlessVerified ==
  /\ [](C8_ForwardedOnlyWhenVerified)
  /\ [][C8_TablesWrittenOnlyWhenForwarded]_vars

\* a request was turned away with "verification failed" for its signature
\* while both tables held rows of an earlier, forwarded request
C8_Witness ==
  \E r \in Slots :
     /\ pc[r] = "done" /\ resp[r] = R402Failed /\ ~SignedByPayer(r)
     /\ ~upstream[r] /\ ~wrote[r] /\ track[r] = "none"
     /\ paymentNonces # {} /\ apiCalls # <<>>

\* C9: the service lookup comes before the payment header is looked at.  A
\* request for an (owner, service id) pair with no service record is answered
\* 404, one for a service that is not active 503 naming its status, whatever
\* the header; verifyPayment is not called for either.
C9_LookupFirst ==
  \A r \in Slots :
     LookedUp(r) =>
       LET found == { s \in userServices :
                        s.ownerAddress = req[r].userId /\ s.id = req[r].serviceId }
       IN  /\ found = {} => (resp[r] = R404 /\ verdict[r] = "none" /\ ~upstream[r])
           /\ \A s \in found :
                s.status # "active" =>
                  /\ resp[r].status = 503 /\ resp[r].detail = s.status
                  /\ verdict[r] = "none" /\ ~upstream[r]

\* a request carrying a proof, for a pair that names no service, was
\* answered 404
C9_Witness ==
  \E r \in Slots :
     /\ LookedUp(r) /\ req[r].header.kind = "proof"
     /\ ~(\E s \in userServices :
            s.ownerAddress = req[r].userId /\ s.id = req[r].serviceId)
     /\ resp[r] = R404

\* C10: a header that is present but does not decode to a PaymentProof is
\* answered 402 with the format-error message and never reaches
\* verifyPayment.
C10_MalformedIsFormatError ==
  \A r \in Slots :
     ( /\ LookedUp(r)
       /\ req[r].header.kind \in {"garbage", "jsonNull", "jsonEmpty"}
       /\ \E s \in userServices :
            s.ownerAddress = req[r].userId /\ s.id = req[r].serviceId /\ s.status = "active" )
     => (resp[r] = R402Format /\ verdict[r] = "none")

\* C11: no verification oracle.  Whichever of the six checks refuses a proof
\* (amount, recipient, network, freshness, nonce reuse, signature), the
\* handler's response is one and the same: status 402, the "verification
\* failed" message and nothing else in the body.
C11_NoOracle ==
  \A r \in Slots :
     (pc[r] = "done" /\ HasProof(r) /\ verdict[r] = "false")
     => /\ resp[r].status = 402
        /\ resp[r].error = "Payment verification failed. Please check your payment details."
        /\ resp[r].detail = ""
        /\ resp[r].accepts = NoAccepts

\* a proof right in all but its nonce, which the table holds for its payer,
\* was refused
C11_Witness ==
  \E r \in Slots :
     /\ pc[r] = "done" /\ HasProof(r) /\ verdict[r] = "false"
     /\ AmountMatches(r) /\ RecipientMatches(r) /\ NetworkMatches(r)
     /\ SignedByPayer(r) /\ Age(r, Epoch) <= 300 /\ Age(r, now) <= 300
     /\ \E row \in paymentNonces :
           row.nonce = ProofOf(r).nonce /\ row.userAddress = PairOf(r)[2]

\* C12: every request that passed verification and was forwarded gets a
\* usage record, whether or not the forwarding succeeded: once the handler
\* has returned, trackApiCall has been started for it (its row is stored or
\* on its way).
C12_UsageRecordForEveryForward ==
  \A r \in Slots :
     (pc[r] = "done" /\ upstream[r]) => track[r] \in {"pending", "stored"}

\* a handler that returns the upstream's response has started trackApiCall,
\* the row it stores is one row carrying the status the client was given,
\* and rows are stored by nothing else
C13_OneRecordWithUpstreamStatus ==
  /\ \A r \in Slots :
       (pc[r] # "done" /\ pc'[r] = "done" /\ resp'[r].detail = "upstream")
       => (track'[r] = "pending" /\ verdict[r] = "true")
  /\ apiCalls' # apiCalls =>
       \E r \in Slots :
          /\ track[r] = "pending" /\ track'[r] = "stored"
          /\ resp[r].detail = "upstream"
          /\ apiCalls' = Append(apiCalls, [serviceId |-> req[r].serviceId,
                                           statusCode |-> resp[r].status])

\* a proof that was accepted before is answered "verification failed" when
\* verifyPayment is through with it
C13_ResubmissionRefused ==
  \A r \in Slots :
     (HasProof(r) /\ PairOf(r) \in accepted /\ verdict[r] = "none" /\ verdict'[r] # "none")
     => (verdict'[r] = "false" /\ resp'[r] = R402Failed)

\* an accepted proof accounts for one usage record at most
C13_NoFurtherRecord == Len(apiCalls) <= Cardinality(accepted)

\* C13: a request that verifies and whose upstream answers is given the
\* upstream's status and gets one usage record with that status; the same
\* proof submitted again afterwards is answered 402 "verification failed"
\* and gets no further usage record.
C13_ForwardOnceRecordOnce ==
  /\ [][C13_OneRecordWithUpstreamStatus]_vars
  /\ [][C13_ResubmissionRefused]_vars
  /\ [](C13_NoFurtherRecord)

(***************************************************************************)
(* Claims about the rate limiter.                                          *)
(***************************************************************************)
BurstSize == MaxTokens(config) \div 1000

\* more callers than the burst have called, all of them at the moment the
\* limiter was constructed
IssuedTogether ==
  /\ Len(calledAt) > BurstSize
  /\ \A i \in 1 .. Len(calledAt) : calledAt[i] = 0

\* the first B callers were admitted at once
C14_BurstAtOnce ==
  IssuedTogether =>
    \A i \in 1 .. BurstSize : i <= Len(admitted) /\ admitted[i].at = 0

\* every admission after the first B comes 1/R seconds or more after the
\* one before it
C14_Paced ==
  IssuedTogether =>
    \A i \in 1 .. Len(admitted) :
       i > BurstSize =>
         (admitted[i].at - admitted[i - 1].at) * config.requestsPerSecond >= 1000

\* no more than B + R * elapsed seconds admitted so far
C14_Budget ==
  1000 * Len(admitted) <= 1000 * BurstSize + config.requestsPerSecond * clockMs

\* C14: burst and pacing.  On a fresh limiter with burst B and rate R per
\* second, when more than B callers call together the first B are admitted
\* at once, each later admission comes at least 1/R seconds after the one
\* before, and at no time have more than B + R * elapsed been admitted.
C14_BurstAndPacing == C14_BurstAtOnce /\ C14_Paced /\ C14_Budget

\* C15: callers are admitted in the order in which they called: the k-th
\* promise resolved is the k-th caller's.
C15_Fifo ==
  \A k \in 1 .. Len(admitted) : admitted[k].caller = k

\* all callers were admitted, two of them after waiting in the queue
\* together
C15_Witness ==
  /\ Len(admitted) = MaxCallers
  /\ \E k \in 2 .. MaxCallers :
        /\ admitted[k - 1].at > calledAt[k]
        /\ admitted[k].at > calledAt[k]

\* the k-th caller has been admitted
Resolved(k) == \E i \in 1 .. Len(admitted) : admitted[i].caller = k

\* while callers wait, the drain loop is under way, asleep on its timer
C16_DrainerAwake ==
  queue # <<>> => (processing /\ wakeAt # -1)

\* C16: every waitForToken call is resolved in the end: while callers wait a
\* drain loop is asleep on a timer, and time and again every caller that has
\* called has been admitted (an admission is never undone, so each caller is
\* admitted at last).
C16_EveryCallerResolved ==
  /\ [](C16_DrainerAwake)
  /\ []<>(\A k \in 1 .. Len(calledAt) : Resolved(k))

\* the last caller arrived while the drain loop was asleep with callers
\* waiting, and was admitted later
C16_Witness ==
  /\ Len(admitted) = MaxCallers
  /\ admitted[MaxCallers].at > calledAt[MaxCallers]
  /\ admitted[MaxCallers - 1].at > calledAt[MaxCallers]
  /\ calledAt[MaxCallers] > calledAt[MaxCallers - 1]


(***************************************************************************)
(* Claims about abuse prevention                                           *)
(***************************************************************************)

\* checkAbuseLimit has returned
AbuseReturned == abusePc = "done"

\* the free-mode rows of the caller created in the 24 hours before the return
RecentFreeRuns == FreeByUserSince(abuseReq.userAddress, abuseAskedAt - DAY_MS)

\* C17: a checkAbuseLimit call with validationMode 'user-paid' returns
\* allowed=true whatever rows validation_requests holds, and makes no query
\* on the way.
C17_UserPaidAllowed ==
  AbuseReturned /\ abuseReq.validationMode = "user-paid"
    => abuseResult.allowed /\ abuseFailed \subseteq {"db"}

\* a user-paid call returned on a table that holds five free runs of the
\* caller within the day, with the datastore available
C17_Witness ==
  /\ AbuseReturned
  /\ abuseReq.validationMode = "user-paid"
  /\ abuseFailed = {}
  /\ Cardinality(RecentFreeRuns) >= FREE_VALIDATIONS_PER_DAY
  /\ abuseResult.allowed

\* milliseconds from t to the next UTC midnight
MsUntilMidnight(t) == DAY_MS - (t % DAY_MS)

\* C18: a free-mode call by a user who has five free-mode rows created within
\* the 24 hours before, on a datastore that answered its queries, is denied,
\* and its retryAfter is the time until the next UTC midnight in whole
\* seconds: at least one, and less than a second beyond that midnight.
C18_SixthFreeRunDenied ==
  /\ AbuseReturned
  /\ abuseReq.validationMode = "free"
  /\ abuseFailed = {}
  /\ Cardinality(RecentFreeRuns) >= FREE_VALIDATIONS_PER_DAY
  => /\ ~abuseResult.allowed
     /\ abuseResult.retryAfter >= 1
     /\ (abuseResult.retryAfter - 1) * 1000 < MsUntilMidnight(abuseAskedAt)

\* the sixth free run was denied on the stroke of midnight, with exactly
\* five rows in the window
C18_Witness ==
  /\ AbuseReturned
  /\ abuseReq.validationMode = "free"
  /\ abuseFailed = {}
  /\ Cardinality(RecentFreeRuns) = FREE_VALIDATIONS_PER_DAY
  /\ ~abuseResult.allowed
  /\ abuseAskedAt = Midnight
  /\ abuseResult.retryAfter = 86400

\* C19: a checkAbuseLimit call during which the datastore was unavailable or
\* a query failed returns allowed=true.
C19_FailsOpen == AbuseReturned /\ abuseFailed # {} => abuseResult.allowed

\* the same of the Drizzle module alone
C19_DrizzleFailsOpen ==
  AbuseReturned /\ abuseFailed # {} /\ variant = "drizzle" => abuseResult.allowed

\* the checks in the order the specification gives them
CheckOrder == <<"daily", "weekly", "cooldown", "ip", "service", "budget">>

\* the checks that apply to the call: the per-IP cap only when an IP is given
Applies(c) == c # "ip" \/ abuseReq.ipAddress # ""

\* the first applicable check after position n of the order, "done" after
\* the last
RECURSIVE CheckAfter(_)
CheckAfter(n) ==
  IF n >= Len(CheckOrder) THEN "done"
  ELSE IF Applies(CheckOrder[n + 1]) THEN CheckOrder[n + 1]
  ELSE CheckAfter(n + 1)

\* the rejections each check gives
RejectionsOf(c) ==
  CASE c = "daily" -> {"Daily limit reached"}
    [] c = "weekly" -> {"Weekly limit reached"}
    [] c = "cooldown" -> {"Please wait"}
    [] c = "ip" -> {"IP rate limit exceeded"}
    [] c = "service" -> {"Service validation limit reached for today",
                         "This service was recently validated"}
    [] c = "budget" -> {"Daily validation budget exhausted"}

\* the rows a counting check counts, as of the moment it was started
RowsCounted(c) ==
  { i \in DOMAIN validationRequests :
      LET row == validationRequests[i]
      IN  CASE c = "daily" -> /\ row.requestedByAddress = abuseReq.userAddress
                              /\ row.validationMode = "free"
                              /\ row.createdAt >= abuseAskedAt - 86400000
            [] c = "weekly" -> /\ row.requestedByAddress = abuseReq.userAddress
                               /\ row.validationMode = "free"
                               /\ row.createdAt >= abuseAskedAt - 7 * 86400000
            [] c = "ip" -> /\ row.requestedByIp = abuseReq.ipAddress
                           /\ row.createdAt >= abuseAskedAt - 3600000
            [] OTHER -> FALSE }

\* a counting check whose cap is reached
CapReached(c) ==
  \/ c = "daily" /\ Cardinality(RowsCounted(c)) >= 5
  \/ c = "weekly" /\ Cardinality(RowsCounted(c)) >= 20
  \/ c = "ip" /\ Cardinality(RowsCounted(c)) >= 10

\* the step that ends the n-th check of the order: the call goes on to the
\* next applicable check with nothing decided, which a check whose cap is
\* reached does only when its query failed; or it returns that check's
\* rejection; or it returns allowed, after the last check or on a failure
EndsCheck(n) ==
  LET c == CheckOrder[n]
  IN  (abusePc = c /\ abusePc' # c) =>
        \/ /\ abusePc' = CheckAfter(n)
           /\ abusePc' # "done"
           /\ abuseResult' = abuseResult
           /\ CapReached(c) => c \in abuseFailed'
        \/ /\ abusePc' = "done"
           /\ ~abuseResult'.allowed
           /\ abuseResult'.reason \in RejectionsOf(c)
        \/ /\ abusePc' = "done"
           /\ abuseResult'.allowed
           /\ CheckAfter(n) = "done" \/ abuseFailed' # {}
           /\ CapReached(c) => abuseFailed' # {}

\* C32: a free-mode checkAbuseLimit call makes its checks in the order user
\* daily cap, user weekly cap, user cooldown, per-IP cap (when an IP is
\* given), per-service limit, global budget; it returns the rejection of the
\* first check that fails and makes no check after it, and it returns
\* allowed only after every applicable check has passed.
C32_FixedOrder ==
  [][/\ (abusePc \in {"idle", "done"} /\ abusePc' \notin {"idle", "done"})
          => (abusePc' = "daily" /\ abuseReq'.validationMode = "free")
     /\ \A n \in 1 .. Len(CheckOrder) : EndsCheck(n)]_vars

\* a call that gave an IP passed the three checks on the user and was
\* rejected by the per-IP cap, with every query answered
C32_Witness ==
  /\ AbuseReturned
  /\ abuseReq.validationMode = "free"
  /\ abuseReq.ipAddress # ""
  /\ abuseFailed = {}
  /\ ~abuseResult.allowed
  /\ abuseResult.reason = "IP rate limit exceeded"
  /\ ~CapReached("daily") /\ ~CapReached("weekly")

\* the rows of the caller, of any mode
RowsOfCaller ==
  { i \in DOMAIN validationRequests :
      validationRequests[i].requestedByAddress = abuseReq.userAddress }

\* ms since the newest of the rows S was created
SinceNewest(S) ==
  LET newest == CHOOSE i \in S :
                  \A j \in S : validationRequests[j].createdAt <= validationRequests[i].createdAt
  IN  wallMs - validationRequests[newest].createdAt

\* the check that is at its end has had its query answered
Answered == abuseFailed' = abuseFailed

\* C33: the cooldown check denies a free-mode request whenever the caller's
\* most recent row, of either mode, was created less than 300 seconds
\* before, with retryAfter the rest of the 300 seconds rounded up to whole
\* seconds, and does not deny it when that row is 300 seconds old or older.
C33_Cooldown ==
  [][(abusePc = "cooldown" /\ abusePc' # "cooldown" /\ Answered) =>
       IF RowsOfCaller # {} /\ SinceNewest(RowsOfCaller) < 300000
         THEN /\ abusePc' = "done"
              /\ ~abuseResult'.allowed
              /\ abuseResult'.reason = "Please wait"
              /\ abuseResult'.retryAfter * 1000 >= 300000 - SinceNewest(RowsOfCaller)
              /\ (abuseResult'.retryAfter - 1) * 1000 < 300000 - SinceNewest(RowsOfCaller)
       ELSE abusePc' # "done" /\ abuseResult' = abuseResult]_vars

\* a free-mode call was denied for 200 seconds by the cooldown because of a
\* user-paid run of the caller
C33_Witness ==
  /\ AbuseReturned
  /\ abuseReq.validationMode = "free"
  /\ ~abuseResult.allowed
  /\ abuseResult.reason = "Please wait"
  /\ abuseResult.retryAfter = 200
  /\ \E i \in RowsOfCaller :
        /\ validationRequests[i].validationMode = "user-paid"
        /\ \A j \in RowsOfCaller :
              validationRequests[j].createdAt <= validationRequests[i].createdAt

\* the free-mode rows of the service created in the 24 hours before the
\* service check was started
FreeRunsOfService ==
  { i \in DOMAIN validationRequests :
      /\ validationRequests[i].serviceId = abuseReq.serviceId
      /\ validationRequests[i].validationMode = "free"
      /\ validationRequests[i].createdAt >= abuseAskedAt - 86400000 }

\* the step ending the service check, its query answered and the daily cap
\* of the service not reached, denies exactly when the newest free run of
\* the service is less than 3600 seconds old
SpacingDecided ==
  (/\ abusePc = "service"
   /\ abusePc' # "service"
   /\ Answered
   /\ Cardinality(FreeRunsOfService) < 100) =>
     IF FreeRunsOfService # {} /\ SinceNewest(FreeRunsOfService) < 3600000
       THEN /\ abusePc' = "done"
            /\ ~abuseResult'.allowed
            /\ abuseResult'.reason = "This service was recently validated"
     ELSE abusePc' # "done" /\ abuseResult' = abuseResult

\* C34: a free-mode request for a service is denied whenever the most recent
\* free-mode validation of that service was created less than 3600 seconds
\* before, whatever other validations of the service the last 24 hours hold
\* (the latest one decides), and the spacing rule does not deny it when the
\* latest one is 3600 seconds old or older.
C34_ServiceSpacing == [][SpacingDecided]_vars

\* the same of the Supabase module alone
C34_SupabaseSpacing == [][variant = "supabase" => SpacingDecided]_vars

(***************************************************************************)
(* Claims about the validation engine                                      *)
(***************************************************************************)

\* row i keeps the status it has, unless that is pending
StatusSettled(i) ==
  /\ i \in DOMAIN validationRequests'
  /\ validationRequests'[i].status \in {"pending", "completed", "failed"}
  /\ validationRequests[i].status # "pending"
       => validationRequests'[i].status = validationRequests[i].status

\* C20: a validation_requests row is created with status pending and its
\* status changes at most once, from pending to completed or to failed: a
\* completed row is never set to failed, a failed one never to completed,
\* and neither goes back to pending.
C20_StatusChangesOnce ==
  [][/\ \A i \in DOMAIN validationRequests : StatusSettled(i)
     /\ \A i \in DOMAIN validationRequests' \ DOMAIN validationRequests :
          validationRequests'[i].status = "pending"]_vars


\* the row validateService inserted
RunRecord == validationRequests[runRow]

\* validateService threw after it had inserted its row
ThrewAfterInsert == runOutcome = "threw" /\ runRow # 0

\* C21: when a step of validateService raises after the row was created, the
\* row ends with status failed and the causing error's message, never
\* pending, and the causing error is the one thrown to the caller.
C21_FailedWithCause ==
  ThrewAfterInsert
    => /\ RunRecord.status = "failed"
       /\ RunRecord.errorMessage = runError
       /\ runThrown = runError


\* validateService threw its no-testnet error
RejectedForNoTestnet == runOutcome = "threw" /\ runThrown = "Service does not support testnet"

\* no entry of the request's accepts has a network with a testnet keyword
NoTestnetOffered ==
  \A i \in DOMAIN runReq.accepts : runReq.accepts[i].keywords \cap testnetKeywords = {}

\* C22: a free-mode run for a service whose accepts hold no network with a
\* testnet marker is rejected by validateService, and from its call on no
\* HTTP request goes to the service under test and no payment is signed.
C22_RejectedBeforeAnyCall ==
  /\ nRuns > 0
  /\ runReq.validationMode = "free"
  /\ NoTestnetOffered
  => runOutcome = "threw" /\ ~runFetched /\ ~runSigned /\ runRow = 0

\* a free-mode run was rejected for a service that accepts two mainnets
C22_Witness ==
  /\ RejectedForNoTestnet
  /\ runReq.validationMode = "free"
  /\ Len(runReq.accepts) = 2
  /\ NoTestnetOffered
  /\ ~runFetched
  /\ ~runSigned


\* C23: every run of validateService that raises with the datastore at
\* hand, a free-mode run rejected for want of a testnet among them, has
\* created its row and leaves it marked failed with the error's message.
C23_RowForEveryRaise ==
  runOutcome = "threw" /\ runThrown # "Database not available"
    => /\ runRow # 0
       /\ RunRecord.status = "failed"
       /\ RunRecord.errorMessage = runThrown


(***************************************************************************)
(* Claims about the validation score                                       *)
(***************************************************************************)

\* the points the claim gives a result
ClaimedPoints(r) ==
  (IF r.statusCode = 200 THEN 30 ELSE 0) + (IF r.schemaValid THEN 40 ELSE 0)
    + (IF r.responseTime < 2000 THEN 20 ELSE 0) + (IF r.errorMessage = "" THEN 10 ELSE 0)

RECURSIVE ClaimedTotal(_)
ClaimedTotal(results) ==
  IF results = <<>> THEN 0 ELSE ClaimedPoints(Head(results)) + ClaimedTotal(Tail(results))

\* C24: the run's score is the average of its results' points (30 for a
\* 200, 40 for a valid schema, 20 for under 2000 ms, 10 for no error
\* message) rounded to the nearest integer, within 0..100 and 0 for no
\* results; the run is verified exactly when the score, and just as well the
\* unrounded average, is at least 70; a run whose only result has a schema
\* mismatch scores at most 60 and is failed.
C24_Score ==
  score # -1 =>
    LET n == Len(testResults)
        total == ClaimedTotal(testResults)
    IN  /\ score \in 0 .. 100
        /\ n = 0 => score = 0
        /\ 2 * (score * n - total) <= n
        /\ 2 * (total - score * n) <= n
        /\ validationStatus = (IF score >= 70 THEN "verified" ELSE "failed")
        /\ score >= 70 <=> (n > 0 /\ total >= 70 * n)
        /\ n = 1 /\ ~testResults[1].schemaValid => score <= 60 /\ validationStatus = "failed"

\* a run whose only result is a quick 200 without error message and with a
\* schema mismatch was scored 60 and classified failed
C24_Witness ==
  /\ Len(testResults) = 1
  /\ testResults[1] = TestResult(200, FALSE, 1999, "")
  /\ score = 60
  /\ validationStatus = "failed"


(***************************************************************************)
(* Claims about the payment signers                                        *)
(***************************************************************************)

\* a signer was called
SignerCalled == signCall.signer # ""

\* a validator key is configured for the network the signer was called for
KeyConfigured == NetworkToLowerCase(signCall.network) \in keyMap \cap env

\* C25: a signer called for a network without a configured validator key
\* throws and signs nothing, and whatever a signer signs it signs with the
\* key configured for the network it was called for.
C25_NoKeyNoSignature ==
  SignerCalled =>
    /\ ~KeyConfigured => ~signResult.signed /\ signResult.error # ""
    /\ signResult.signed => KeyConfigured /\ signResult.key = NetworkToLowerCase(signCall.network)

\* signX402Payment threw for mainnet base while the base-sepolia key was set
C25_Witness ==
  /\ signCall = [signer |-> "signX402Payment", network |-> "base"]
  /\ "base-sepolia" \in env
  /\ ~signResult.signed
  /\ signResult.error = "No validator wallet configured for network"


(***************************************************************************)
(* Claims about the order of verifyPayment's checks                        *)
(***************************************************************************)

\* the proof handler r serves passes checks 1-4 at the current time
PassesFirstFour(r) ==
  /\ HasProof(r)
  /\ AmountMatches(r) /\ RecipientMatches(r) /\ NetworkMatches(r)
  /\ Age(r, now) <= 300

\* the table holds the row of the proof's nonce and payer
RecordedAsConsumed(r) ==
  \E row \in paymentNonces : row.nonce = PairOf(r)[1] /\ row.userAddress = PairOf(r)[2]

\* C26: verifyPayment stops at the first failing check: a handler comes to
\* query the nonce store only with a proof that passed the amount,
\* recipient, network and freshness checks, and comes to recover the
\* signature only with such a proof whose nonce is not recorded as consumed.
C26_FailFastInOrder ==
  [][\A r \in Slots :
       /\ pc[r] # "nonce" /\ pc'[r] = "nonce" => PassesFirstFour(r)
       /\ pc[r] = "lookup" /\ pc'[r] = "recover" => PassesFirstFour(r)
       /\ pc[r] # "recover" /\ pc'[r] = "recover" => ~RecordedAsConsumed(r)]_vars

\* the bucket as a refill at the present reading of the clock leaves it
Refilled ==
  IF tokens + (clockMs - lastRefill) * config.requestsPerSecond >= 1000 * BurstSize
    THEN 1000 * BurstSize
    ELSE tokens + (clockMs - lastRefill) * config.requestsPerSecond

\* no more than one processQueue call is in its while loop, and the flag
\* says whether one is
C27_OneLoop == loops <= 1 /\ (processing <=> loops = 1)

\* a step that admits k callers takes k whole tokens out of the refilled
\* bucket and never more than it holds, a step that admits nobody takes
\* none, and nobody is admitted twice
C27_TokenPerCaller ==
  LET k == Len(admitted') - Len(admitted)
  IN  /\ k >= 0
      /\ k > 0 => tokens' = Refilled - 1000 * k /\ tokens' >= 0
      /\ k = 0 => tokens' >= tokens
      /\ \A i, j \in 1 .. Len(admitted') :
            admitted'[i].caller = admitted'[j].caller => i = j

\* C27: at most one processQueue drain loop is under way at any time,
\* however the waitForToken calls and the timer's wake-ups interleave, and
\* tokens are taken by that loop alone, one whole token for each caller it
\* admits, so that no two callers are admitted on the same token.
C27_OneDrainLoop ==
  /\ [](C27_OneLoop)
  /\ [][C27_TokenPerCaller]_vars

\* a caller called while the loop was asleep with another caller waiting,
\* after the timer had already woken the loop once to admit somebody
C27_Witness ==
  /\ loops = 1
  /\ Len(queue) >= 2
  /\ calledAt[queue[Len(queue)]] > calledAt[queue[1]]
  /\ \E i \in 1 .. Len(admitted) : admitted[i].at > calledAt[admitted[i].caller]

\* ms until the bucket, short of a whole token, holds one again
MsToNextToken ==
  (1000 - tokens + config.requestsPerSecond - 1) \div config.requestsPerSecond

\* C28: when no token is available, the drain loop sleeps for the minimum of
\* the time until the next token is available and the floor of 1000 ms
\* before it tries again.
C28_SleepsTheMinimum ==
  [][(wakeAt' # -1 /\ wakeAt' # wakeAt /\ tokens' < 1000) =>
        wakeAt' - clockMs = (IF MsToNextToken' <= 1000 THEN MsToNextToken' ELSE 1000)]_vars

\* the admissions of the last 60 seconds, up to the present reading of the
\* clock
AdmittedLastMinute ==
  Cardinality({i \in 1 .. Len(admitted) : admitted[i].at > clockMs - 60000})

\* of any requestsPerMinute + 1 admissions, the last comes 60 seconds or
\* more after the first
C29_WindowCap ==
  config.requestsPerMinute # 0 =>
    \A i \in 1 .. Len(admitted) :
       i + config.requestsPerMinute <= Len(admitted) =>
         admitted[i + config.requestsPerMinute].at - admitted[i].at >= 60000

\* a pass of the drain loop that finds a whole token in the bucket and
\* fewer than requestsPerMinute admissions in the last 60 seconds admits the
\* caller at the head of the queue
C29_AdmittedWhenAged ==
  (/\ queue # <<>>
   /\ clockMs' = clockMs
   /\ wakeAt' # wakeAt
   /\ Refilled >= 1000
   /\ AdmittedLastMinute < config.requestsPerMinute)
    => (Len(admitted') > Len(admitted) /\ admitted'[Len(admitted) + 1].caller = Head(queue))

\* callers are waiting with a whole token in the bucket and the window full
BlockedByWindow ==
  /\ queue # <<>>
  /\ Refilled >= 1000
  /\ AdmittedLastMinute >= config.requestsPerMinute

\* C29: when requestsPerMinute is configured, no more than requestsPerMinute
\* callers are admitted within any 60 seconds, however many tokens the
\* bucket holds, and a caller held back by the window alone is admitted once
\* enough of the earlier admissions are 60 seconds old.
C29_SlidingWindow ==
  /\ [](C29_WindowCap)
  /\ [][C29_AdmittedWhenAged]_vars
  /\ BlockedByWindow ~> (\A k \in 1 .. Len(calledAt) : Resolved(k))

\* a caller that the window alone had held back, the bucket holding a whole
\* token, was admitted 60 seconds after the admission that made room
C29_Witness ==
  \E i \in 1 .. Len(admitted) :
     /\ i > config.requestsPerMinute
     /\ admitted[i].at - admitted[i - config.requestsPerMinute].at = 60000
     /\ admitted[i].at - calledAt[admitted[i].caller] >= 58000
     /\ tokens >= 0
     /\ Len(minuteWindow) = config.requestsPerMinute

\* the callers that have called and have not been admitted yet
Outstanding == Len(calledAt) - Len(admitted)

\* the queue is no longer than the number of outstanding callers
C30_QueueBounded == Len(queue) <= Outstanding

\* a step lengthens the queue by one for each call made in it and shortens
\* it by one for each caller admitted in it; a step in which nobody calls,
\* no timer fires and no time passes, as a reset is, leaves the queue as it
\* was and admits nobody
C30_OneEntryPerCaller ==
  /\ Len(queue') - Len(queue) =
       (Len(calledAt') - Len(calledAt)) - (Len(admitted') - Len(admitted))
  /\ Len(calledAt') - Len(calledAt) \in {0, 1}
  /\ (calledAt' = calledAt /\ wakeAt' = wakeAt /\ clockMs' = clockMs) =>
       (queue' = queue /\ admitted' = admitted)

\* C30: the queue is never longer than the number of outstanding callers,
\* those that called waitForToken and were not admitted yet: each call adds
\* exactly one entry, each admission removes exactly one, and reset()
\* neither adds nor removes any.
C30_QueueLength ==
  /\ [](C30_QueueBounded)
  /\ [][C30_OneEntryPerCaller]_vars

\* the limiter was reset while callers were waiting: the bucket is full
\* again and they are still queued
C30_Witness ==
  /\ Len(queue) >= 2
  /\ tokens = MaxTokens(config)
  /\ Len(admitted) > 0

\* the bucket holds no less than nothing and no more than the burst size
C31_WithinBucket == 0 <= tokens /\ tokens <= 1000 * BurstSize

\* a step in which the loop runs leaves the bucket refilled up to the burst
\* size, less one whole token for each caller it admits, and it admits no
\* more callers than the refilled bucket holds whole tokens
C31_RefillAndTake ==
  LET k == Len(admitted') - Len(admitted)
      elapsed == clockMs - lastRefill
      refilled == IF tokens + elapsed * config.requestsPerSecond <= 1000 * BurstSize
                    THEN tokens + elapsed * config.requestsPerSecond
                    ELSE 1000 * BurstSize
  IN  /\ (lastRefill' = clockMs /\ wakeAt' # wakeAt) => tokens' = refilled - 1000 * k
      /\ (calledAt' # calledAt /\ ~processing) => tokens' = refilled - 1000 * k
      /\ 1000 * k <= refilled

\* C31: in every state of a RateLimiter 0 <= tokens <= the burst size: a
\* refill sets tokens to min(burst, tokens + elapsed * rate), never above
\* the burst size, and an admission takes exactly one token and only when
\* there is a whole one.
C31_TokensInRange ==
  /\ [](C31_WithinBucket)
  /\ [][C31_RefillAndTake]_vars

\* a second after its first admission a limiter of 2 tokens a second and
\* burst 3, left with 2 tokens, admitted again: the refill stopped at 3
C31_Witness ==
  /\ config.requestsPerSecond = 2
  /\ Len(admitted) = 2
  /\ admitted[1].at = 0
  /\ admitted[2].at = 1000
  /\ lastRefill = 1000
  /\ tokens = 2000

\* a test case of the run has been executed
Executed == runResult.first # -1

\* C36: the validator's key signs a payment only in a free-mode run with a
\* detected testnet chain; in a user-paid run a test case that is answered
\* 402 is never signed with the validator's key, no paid request is sent for
\* it, and it is recorded as failed: passed false, status code 0, schemaValid
\* false, with an error message.
C36_PlatformKeyOnlyInFreeMode ==
  /\ runSigned => (runReq.validationMode = "free" /\ ~NoTestnetOffered)
  /\ (Executed /\ runReq.validationMode = "user-paid" /\ runResult.first = 402) =>
       /\ ~runResult.signed
       /\ ~runResult.paidSent
       /\ ~runResult.passed
       /\ runResult.statusCode = 0
       /\ ~runResult.schemaValid
       /\ runResult.hasError

\* a user-paid run for a service that offers a testnet chain was answered
\* 402 and its test case recorded as failed, unsigned
C36_Witness ==
  /\ Executed
  /\ runReq.validationMode = "user-paid"
  /\ ~NoTestnetOffered
  /\ runResult.first = 402
  /\ runResult.statusCode = 0
  /\ runPc = "store"

\* C37: a test case whose request without payment is answered with a status
\* other than 402 is decided from that status alone: no payment is signed,
\* no second request sent, schemaValid is true, passed is true exactly when
\* the status is 2xx, and there is an error message exactly when it is not.
C37_DecidedFromStatus ==
  (Executed /\ runResult.first \notin {402, 0}) =>
     /\ ~runResult.signed
     /\ ~runResult.paidSent
     /\ runResult.statusCode = runResult.first
     /\ runResult.schemaValid
     /\ runResult.passed <=> (runResult.first >= 200 /\ runResult.first < 300)
     /\ runResult.hasError <=> ~(runResult.first >= 200 /\ runResult.first < 300)

\* a free-mode run with a testnet chain was answered 204 at once: passed,
\* nothing signed
C37_Witness ==
  /\ Executed
  /\ runReq.validationMode = "free"
  /\ runResult.first = 204
  /\ runResult.passed
  /\ ~runSigned

\* C38: the tokensSpent of a completed validation_requests row is the sum of
\* maxAmountRequired over the test cases for which a payment was signed and
\* the paid request returned 200, and no more: a test case answered without
\* a 402, for which nothing was paid, adds nothing.
C38_TokensSpentArePaid ==
  (runRow # 0 /\ RunRecord.status = "completed") =>
     RunRecord.tokensSpent = runReq.price * runPaid

(***************************************************************************)
(* Claims about POST /api/validate                                         *)
(***************************************************************************)

\* the free-mode rows of the user of row i created in the 24 hours up to
\* the creation of row i
FreeRunsInDayUpTo(i) ==
  { j \in DOMAIN validationRequests :
      /\ validationRequests[j].requestedByAddress = validationRequests[i].requestedByAddress
      /\ validationRequests[j].validationMode = "free"
      /\ validationRequests[j].createdAt <= validationRequests[i].createdAt
      /\ validationRequests[j].createdAt > validationRequests[i].createdAt - 86400000 }

\* C35: the free-tier cap bounds what is run: however the POST /api/validate
\* requests interleave, with no datastore errors, no user has more than 5
\* free-mode rows created within any 24 hours; two requests of one user in
\* flight together do not both pass the admission check and both create a
\* row when together they exceed the cap.
C35_CapBoundsRows ==
  \A i \in DOMAIN validationRequests :
     validationRequests[i].validationMode = "free" => Cardinality(FreeRunsInDayUpTo(i)) <= 5


(***************************************************************************)
(* Claims about GET /api/nonces/cleanup.                                   *)
(***************************************************************************)
\* the rows among rows that record the consumption of proof p
RecordsOf(p, rows) ==
  { row \in rows : row.nonce = p.nonce /\ row.userAddress = ToLowerCase(p.from) }

\* proof p was consumed and its record has since been deleted
RecordDeleted(p) == RecordsOf(p, deletedNonces) # {}

\* proof p is within the five minutes of its timestamp at time t
Fresh(p, t) == t - p.timestamp <= 300 /\ p.timestamp - t <= 300

\* C39, first half: the cleanup deletes only the rows whose expiresAt is
\* earlier than the current time, and no other step deletes a row.
C39_DeletesOnlyExpired ==
  [][\A row \in paymentNonces \ paymentNonces' : row.expiresAt < now * 1000]_vars

\* C39, the reason given: a proof whose record has been deleted is no
\* longer fresh, so that a verification that reads the clock after the
\* deletion turns it away at its timestamp check.
C39_DeletedIsStale ==
  \A q \in CleanupRequests :
     RecordDeleted(q.header.proof) => ~Fresh(q.header.proof, now)

\* C39: in any interleaving of verifications and cleanups, verifyPayment
\* never returns true for a proof whose nonce record has been deleted.
C39_DeletedNeverPasses ==
  [][\A r \in Slots :
       (verdict[r] # "true" /\ verdict'[r] = "true")
          => ~RecordDeleted(req[r].header.proof)]_vars

(***************************************************************************)
(* Claims about trackApiCall and the response of a forwarded request.      *)
(***************************************************************************)
\* the handler of slot r has returned what the upstream answered
ReturnedUpstream(r) ==
  pc[r] = "done" /\ resp[r].detail = "upstream" /\ resp[r].error = ""

\* the insert of slot r's trackApiCall comes to its end in this step
InsertEnds(r) == track[r] = "pending" /\ track'[r] \in {"stored", "failed"}

\* C40: tracking never affects the caller: the handler of a verified and
\* forwarded request has returned the upstream's response while the
\* UsageRecord insert is still pending, and the response (status and body)
\* stays what it was when the insert succeeds and when it fails.
C40_TrackingNeverAffectsCaller ==
  /\ [](\A r \in Slots : track[r] # "none" => ReturnedUpstream(r))
  /\ [][\A r \in Slots : InsertEnds(r) => resp'[r] = resp[r] /\ pc'[r] = pc[r]]_vars

\* a forwarded request whose UsageRecord insert failed after the upstream's
\* 200 had been returned
C40_Witness ==
  \E r \in Slots :
     track[r] = "failed" /\ verdict[r] = "true" /\ pc[r] = "done" /\ resp[r].status = 200

====
